---- MODULE Spec2Model ----
(***************************************************************************)
(* HSPmol engine (src/services/hansenSDK.ts) and the project handlers that *)
(* call it (src/components/Comparison.tsx, src/App.tsx and their later     *)
(* revisions under src/unnamed).                                           *)
(*                                                                         *)
(* Numbers.  deltaD, deltaP, deltaH, deltaT, deltaV, molarVolume, the      *)
(* molecular weight and the volume contributions V are held in TENTHS      *)
(* (15.8 is 158): every value the engine returns went through toFixed(1).  *)
(* Fd, Fp, Eh, Ed, Ep are integers in the source and are kept as they are. *)
(* Strings the engine inspects (names, SMILES) are sequences of one-       *)
(* character strings, so that length, includes, toLowerCase and trim are   *)
(* computed.                                                               *)
(***************************************************************************)
EXTENDS Integers, Sequences, FiniteSets, TLC

\* ------------------------------------------------------------------------
\* Fixed-point helpers for Math.sqrt and Number.prototype.toFixed
\* ------------------------------------------------------------------------

Abs(x) == IF x < 0 THEN -x ELSE x

Min(a, b) == IF a < b THEN a ELSE b

\* toFixed rounds the magnitude half up: round(a / b) for b > 0.
RoundDiv(a, b) ==
  IF a >= 0 THEN (2 * a + b) \div (2 * b) ELSE -((2 * (-a) + b) \div (2 * b))

RECURSIVE ISqrtIn(_, _, _)
\* largest s in lo..hi with s * s <= x  (lo * lo <= x is given)
ISqrtIn(x, lo, hi) ==
  IF lo >= hi THEN lo
  ELSE LET mid == (lo + hi + 1) \div 2
       IN  IF mid * mid <= x THEN ISqrtIn(x, mid, hi) ELSE ISqrtIn(x, lo, mid - 1)

\* floor(Math.sqrt(x)) for 0 <= x < 2^31
ISqrt(x) == ISqrtIn(x, 0, 46340)

\* round(sqrt(X)) from F = floor(4 * X):  (2n-1)^2 <= 4X < (2n+1)^2
RoundSqrt4(F) == (ISqrt(F) + 1) \div 2

\* floor(a * b / c) for a, b >= 0, c > 0, without forming a * b
MulDivFloor(a, b, c) == (a \div c) * b + ((a % c) * b) \div c

\* floor(x * k / 1000000) for x >= 0, 0 <= k < 2000000, without forming x * k
ScalePerMillion(x, k) ==
  LET r  == x % 1000000
      r1 == r \div 1000
      r0 == r % 1000
      k1 == k \div 1000
      k0 == k % 1000
  IN  (x \div 1000000) * k + r1 * k1
        + ((r1 * k0 + r0 * k1) * 1000 + r0 * k0) \div 1000000

\* round(x * k / 1000000), the magnitude rounded half up
RoundPerMillion(x, k) ==
  IF x >= 0 THEN (ScalePerMillion(2 * x, k) + 1) \div 2
  ELSE -((ScalePerMillion(2 * (-x), k) + 1) \div 2)

\* round(sqrt(a / b)), a >= 0, b > 0
RoundSqrtRat(a, b) == RoundSqrt4(MulDivFloor(a, 4, b))

\* ------------------------------------------------------------------------
\* Values
\* ------------------------------------------------------------------------

\* JavaScript null / undefined
NULL == [isNull |-> TRUE]

\* fragmentMolecule returns null exactly where it would return no fragment
\* (if (fragments.length === 0) return null); null is the empty list here.
NoFragments == <<>>

\* Object spread { ...a, ...b }: b's fields win, a's other fields stay.
Spread(a, b) == b @@ a

\* A character sequence includes character c (String.prototype.includes).
includes(str, c) == \E i \in 1..Len(str) : str[i] = c

UpperCase == <<"A", "B", "C", "D", "E", "F", "G", "H", "I", "J", "K", "L", "M",
               "N", "O", "P", "Q", "R", "S", "T", "U", "V", "W", "X", "Y", "Z",
               "A_acute", "O_acute">>

LowerCase == <<"a", "b", "c", "d", "e", "f", "g", "h", "i", "j", "k", "l", "m",
               "n", "o", "p", "q", "r", "s", "t", "u", "v", "w", "x", "y", "z",
               "a_acute", "o_acute">>

toLowerCaseChar(c) ==
  IF \E i \in 1..Len(UpperCase) : UpperCase[i] = c
  THEN LowerCase[CHOOSE i \in 1..Len(UpperCase) : UpperCase[i] = c]
  ELSE c

toLowerCase(str) == [i \in 1..Len(str) |-> toLowerCaseChar(str[i])]

WhiteSpace == {" ", "\t", "\n"}

RECURSIVE trimStart(_)
trimStart(str) ==
  IF str # <<>> /\ Head(str) \in WhiteSpace THEN trimStart(Tail(str)) ELSE str

RECURSIVE trimEnd(_)
trimEnd(str) ==
  IF str # <<>> /\ str[Len(str)] \in WhiteSpace
  THEN trimEnd(SubSeq(str, 1, Len(str) - 1))
  ELSE str

trim(str) == trimEnd(trimStart(str))

\* ------------------------------------------------------------------------
\* 1. Experimental data (reference table) and 2. group contribution table
\* ------------------------------------------------------------------------

REFERENCE_SOLVENTS ==
  <<
    [key |-> <<"a", "c", "e", "t", "o", "n", "e">>,
     deltaD |-> 155, deltaP |-> 104, deltaH |-> 70, method |-> "Experimental (Ref)"],
    [key |-> <<"t", "o", "l", "u", "e", "n", "e">>,
     deltaD |-> 186, deltaP |-> 14, deltaH |-> 20, method |-> "Experimental (Ref)"],
    [key |-> <<"b", "e", "n", "z", "e", "n", "e">>,
     deltaD |-> 184, deltaP |-> 0, deltaH |-> 20, method |-> "Experimental (Ref)"],
    [key |-> <<"e", "t", "h", "a", "n", "o", "l">>,
     deltaD |-> 158, deltaP |-> 88, deltaH |-> 194, method |-> "Experimental (Ref)"],
    [key |-> <<"m", "e", "t", "h", "a", "n", "o", "l">>,
     deltaD |-> 151, deltaP |-> 123, deltaH |-> 223, method |-> "Experimental (Ref)"],
    [key |-> <<"c", "h", "l", "o", "r", "o", "f", "o", "r", "m">>,
     deltaD |-> 178, deltaP |-> 31, deltaH |-> 57, method |-> "Experimental (Ref)"],
    [key |-> <<"d", "m", "s", "o">>,
     deltaD |-> 184, deltaP |-> 164, deltaH |-> 102, method |-> "Experimental (Ref)"],
    [key |-> <<"d", "m", "f">>,
     deltaD |-> 174, deltaP |-> 137, deltaH |-> 113, method |-> "Experimental (Ref)"],
    [key |-> <<"w", "a", "t", "e", "r">>,
     deltaD |-> 155, deltaP |-> 160, deltaH |-> 423, method |-> "Experimental (Ref)"],
    [key |-> <<"n", "-", "h", "e", "x", "a", "n", "e">>,
     deltaD |-> 149, deltaP |-> 0, deltaH |-> 0, method |-> "Experimental (Ref)"],
    [key |-> <<"c", "y", "c", "l", "o", "h", "e", "x", "a", "n", "e">>,
     deltaD |-> 168, deltaP |-> 0, deltaH |-> 2, method |-> "Experimental (Ref)"],
    [key |-> <<"e", "t", "h", "y", "l", " ", "a", "c", "e", "t", "a", "t", "e">>,
     deltaD |-> 158, deltaP |-> 53, deltaH |-> 72, method |-> "Experimental (Ref)"],
    [key |-> <<"t", "e", "t", "r", "a", "h", "y", "d", "r", "o", "f", "u", "r", "a", "n">>,
     deltaD |-> 168, deltaP |-> 57, deltaH |-> 80, method |-> "Experimental (Ref)"],
    [key |-> <<"d", "i", "c", "h", "l", "o", "r", "o", "m", "e", "t", "h", "a", "n", "e">>,
     deltaD |-> 182, deltaP |-> 63, deltaH |-> 61, method |-> "Experimental (Ref)"],
    [key |-> <<"a", "c", "e", "t", "o", "n", "i", "t", "r", "i", "l", "e">>,
     deltaD |-> 153, deltaP |-> 180, deltaH |-> 61, method |-> "Experimental (Ref)"],
    [key |-> <<"p", "y", "r", "i", "d", "i", "n", "e">>,
     deltaD |-> 190, deltaP |-> 88, deltaH |-> 59, method |-> "Experimental (Ref)"]
  >>

aliasMap ==
  <<
    [alias |-> <<"a", "c", "e", "t", "o", "n", "a">>,
     key |-> <<"a", "c", "e", "t", "o", "n", "e">>],
    [alias |-> <<"a_acute", "g", "u", "a">>,
     key |-> <<"w", "a", "t", "e", "r">>],
    [alias |-> <<"a", "g", "u", "a">>,
     key |-> <<"w", "a", "t", "e", "r">>],
    [alias |-> <<"e", "t", "a", "n", "o", "l">>,
     key |-> <<"e", "t", "h", "a", "n", "o", "l">>],
    [alias |-> <<"m", "e", "t", "a", "n", "o", "l">>,
     key |-> <<"m", "e", "t", "h", "a", "n", "o", "l">>],
    [alias |-> <<"c", "l", "o", "r", "o", "f", "o_acute", "r", "m", "i", "o">>,
     key |-> <<"c", "h", "l", "o", "r", "o", "f", "o", "r", "m">>],
    [alias |-> <<"d", "m", "s", "o">>,
     key |-> <<"d", "m", "s", "o">>],
    [alias |-> <<"t", "o", "l", "u", "e", "n", "o">>,
     key |-> <<"t", "o", "l", "u", "e", "n", "e">>],
    [alias |-> <<"b", "e", "n", "z", "e", "n", "o">>,
     key |-> <<"b", "e", "n", "z", "e", "n", "e">>],
    [alias |-> <<"h", "e", "x", "a", "n", "o">>,
     key |-> <<"n", "-", "h", "e", "x", "a", "n", "e">>],
    [alias |-> <<"d", "i", "c", "l", "o", "r", "o", "m", "e", "t", "a", "n", "o">>,
     key |-> <<"d", "i", "c", "h", "l", "o", "r", "o", "m", "e", "t", "h", "a", "n", "e">>]
  >>

FUNCTIONAL_GROUPS ==
  <<
    [smarts |-> "[CX3](=O)[OX2H1]", name |-> "-COOH (Acid)", priority |-> 100,
     vkh |-> [Fd |-> 530, Fp |-> 420, Eh |-> 10000, V |-> 285],
     sp |-> [Ed |-> 11800, Ep |-> 6200, Eh |-> 29500, V |-> 298]],
    [smarts |-> "[CX3](=O)[OX2H0]", name |-> "-COO- (Ester)", priority |-> 95,
     vkh |-> [Fd |-> 390, Fp |-> 490, Eh |-> 7000, V |-> 180],
     sp |-> [Ed |-> 6850, Ep |-> 4650, Eh |-> 6800, V |-> 210]],
    [smarts |-> "[CX3](=O)[NX3H2]", name |-> "-CONH2 (Primary Amide)", priority |-> 95,
     vkh |-> [Fd |-> 900, Fp |-> 1500, Eh |-> 18000, V |-> 290],
     sp |-> [Ed |-> 18500, Ep |-> 31000, Eh |-> 42000, V |-> 280]],
    [smarts |-> "[CX3](=O)[NX3H1]", name |-> "-CONH- (Sec. Amide)", priority |-> 94,
     vkh |-> [Fd |-> 820, Fp |-> 1100, Eh |-> 8000, V |-> 250],
     sp |-> [Ed |-> 14200, Ep |-> 19500, Eh |-> 18000, V |-> 245]],
    [smarts |-> "[#6][CX3](=O)[#6]", name |-> ">C=O (Ketone)", priority |-> 90,
     vkh |-> [Fd |-> 290, Fp |-> 770, Eh |-> 2000, V |-> 108],
     sp |-> [Ed |-> 4950, Ep |-> 9800, Eh |-> 2200, V |-> 135]],
    [smarts |-> "[CX3H1](=O)", name |-> "-CHO (Aldehyde)", priority |-> 90,
     vkh |-> [Fd |-> 470, Fp |-> 800, Eh |-> 4500, V |-> 210],
     sp |-> [Ed |-> 6100, Ep |-> 9200, Eh |-> 4100, V |-> 221]],
    [smarts |-> "c1ccccc1", name |-> "Phenyl (C6H5-)", priority |-> 85,
     vkh |-> [Fd |-> 1270, Fp |-> 110, Eh |-> 0, V |-> 524],
     sp |-> [Ed |-> 31500, Ep |-> 500, Eh |-> 100, V |-> 730]],
    [smarts |-> "C#N", name |-> "-CN (Nitrile)", priority |-> 80,
     vkh |-> [Fd |-> 430, Fp |-> 1100, Eh |-> 2500, V |-> 240],
     sp |-> [Ed |-> 5800, Ep |-> 19000, Eh |-> 2800, V |-> 255]],
    [smarts |-> "[N+](=O)[O-]", name |-> "-NO2 (Nitro)", priority |-> 80,
     vkh |-> [Fd |-> 500, Fp |-> 1000, Eh |-> 1500, V |-> 220],
     sp |-> [Ed |-> 7100, Ep |-> 14500, Eh |-> 1900, V |-> 235]],
    [smarts |-> "[OX2H]", name |-> "-OH (Alcohol)", priority |-> 75,
     vkh |-> [Fd |-> 280, Fp |-> 500, Eh |-> 20000, V |-> 100],
     sp |-> [Ed |-> 3500, Ep |-> 3100, Eh |-> 24500, V |-> 98]],
    [smarts |-> "[OD2]([#6])[#6]", name |-> "-O- (Ether)", priority |-> 70,
     vkh |-> [Fd |-> 100, Fp |-> 400, Eh |-> 3000, V |-> 38],
     sp |-> [Ed |-> 1200, Ep |-> 1800, Eh |-> 2500, V |-> 45]],
    [smarts |-> "[NX3;H2;!$(NC=O)]", name |-> "-NH2 (Pri. Amine)", priority |-> 70,
     vkh |-> [Fd |-> 280, Fp |-> 450, Eh |-> 8000, V |-> 185],
     sp |-> [Ed |-> 3900, Ep |-> 4200, Eh |-> 9500, V |-> 201]],
    [smarts |-> "[F]", name |-> "-F", priority |-> 60,
     vkh |-> [Fd |-> 180, Fp |-> 100, Eh |-> 400, V |-> 150],
     sp |-> [Ed |-> 1500, Ep |-> 500, Eh |-> 200, V |-> 110]],
    [smarts |-> "[Cl]", name |-> "-Cl", priority |-> 60,
     vkh |-> [Fd |-> 450, Fp |-> 550, Eh |-> 400, V |-> 240],
     sp |-> [Ed |-> 5100, Ep |-> 3200, Eh |-> 500, V |-> 235]],
    [smarts |-> "[Br]", name |-> "-Br", priority |-> 60,
     vkh |-> [Fd |-> 600, Fp |-> 650, Eh |-> 500, V |-> 300],
     sp |-> [Ed |-> 7200, Ep |-> 4500, Eh |-> 600, V |-> 285]],
    [smarts |-> "[CH3]", name |-> "-CH3", priority |-> 10,
     vkh |-> [Fd |-> 420, Fp |-> 0, Eh |-> 0, V |-> 335],
     sp |-> [Ed |-> 4300, Ep |-> 0, Eh |-> 0, V |-> 334]],
    [smarts |-> "[CH2]", name |-> "-CH2-", priority |-> 9,
     vkh |-> [Fd |-> 270, Fp |-> 0, Eh |-> 0, V |-> 161],
     sp |-> [Ed |-> 4150, Ep |-> 0, Eh |-> 0, V |-> 165]],
    [smarts |-> "[CH1]", name |-> ">CH-", priority |-> 8,
     vkh |-> [Fd |-> 80, Fp |-> 0, Eh |-> 0, V |-> -10],
     sp |-> [Ed |-> 3800, Ep |-> 0, Eh |-> 0, V |-> -15]],
    [smarts |-> "[CH0]", name |-> ">C<", priority |-> 7,
     vkh |-> [Fd |-> -70, Fp |-> 0, Eh |-> 0, V |-> -192],
     sp |-> [Ed |-> 2800, Ep |-> 0, Eh |-> 0, V |-> -180]],
    [smarts |-> "C=C", name |-> ">C=C< (Double Bond)", priority |-> 15,
     vkh |-> [Fd |-> 400, Fp |-> 200, Eh |-> 200, V |-> 120],
     sp |-> [Ed |-> 3900, Ep |-> 400, Eh |-> 400, V |-> 115]]
  >>

\* ------------------------------------------------------------------------
\* Calculation methods
\* ------------------------------------------------------------------------

RECURSIVE Sum(_)
Sum(s) == IF s = <<>> THEN 0 ELSE Head(s) + Sum(Tail(s))

\* a calculateDerivedProperties that loses the volume it is handed
calculateDerivedPropertiesNoVolume(sq4T, sq4V, vm) ==
  [deltaT |-> RoundSqrt4(sq4T), deltaV |-> RoundSqrt4(sq4V), molarVolume |-> 0]

\* calculateDerivedProperties(d, p, h, vm).  The source passes the unrounded
\* d, p, h; here the caller passes sq4T = floor(4 * 100 * (d^2 + p^2 + h^2))
\* and sq4V = floor(4 * 100 * (d^2 + p^2)), from which the one-decimal
\* roundings of the two square roots are exact, and vm in tenths.
calculateDerivedProperties(sq4T, sq4V, vm) ==
  [deltaT |-> RoundSqrt4(sq4T), deltaV |-> RoundSqrt4(sq4V), molarVolume |-> vm]

\* derived properties of a record whose d, p, h are already one-decimal values
DerivedOfTenths(d, p, h, vm) ==
  calculateDerivedProperties(4 * (d * d + p * p + h * h), 4 * (d * d + p * p), vm)

\* if (sumV <= 5) sumV = mw
VolumeThreshold == 50

NormVolume(sumV, mw) == IF sumV <= VolumeThreshold THEN mw ELSE sumV

calculateStefanis(frags, mw) ==
  LET n     == Len(frags)
      sumEd == Sum([i \in 1..n |-> frags[i].group.sp.Ed * frags[i].count])
      sumEp == Sum([i \in 1..n |-> frags[i].group.sp.Ep * frags[i].count])
      sumEh == Sum([i \in 1..n |-> frags[i].group.sp.Eh * frags[i].count])
      sumV  == NormVolume(
                 Sum([i \in 1..n |-> frags[i].group.sp.V * frags[i].count]), mw)
  IN  Spread(
        Spread([deltaD |-> RoundSqrtRat(1000 * sumEd, sumV),
                deltaP |-> RoundSqrtRat(1000 * sumEp, sumV),
                deltaH |-> RoundSqrtRat(1000 * sumEh, sumV)],
               calculateDerivedProperties(
                 MulDivFloor(1000 * (sumEd + sumEp + sumEh), 4, sumV),
                 MulDivFloor(1000 * (sumEd + sumEp), 4, sumV),
                 sumV)),
        [method |-> "Stefanis"])

calculateVanKrevelen(frags, mw) ==
  LET n      == Len(frags)
      sumFd  == Sum([i \in 1..n |-> frags[i].group.vkh.Fd * frags[i].count])
      sumFp2 == Sum([i \in 1..n |->
                       frags[i].group.vkh.Fp * frags[i].group.vkh.Fp
                         * frags[i].count])
      sumEh  == Sum([i \in 1..n |-> frags[i].group.vkh.Eh * frags[i].count])
      sumV   == NormVolume(
                  Sum([i \in 1..n |-> frags[i].group.vkh.V * frags[i].count]), mw)
      \* floor(4 * 100 * d^2 + 4 * 100 * p^2) * sumV, d = sumFd / sumV, p = sqrt(sumFp2) / sumV
      dp2    == MulDivFloor(sumFd * sumFd + sumFp2, 40000, sumV)
  IN  Spread(
        Spread([deltaD |-> RoundDiv(100 * sumFd, sumV),
                deltaP |-> RoundSqrt4(MulDivFloor(sumFp2, 40000, sumV) \div sumV),
                deltaH |-> RoundSqrtRat(1000 * sumEh, sumV)],
               calculateDerivedProperties(
                 (dp2 + 4000 * sumEh) \div sumV,
                 dp2 \div sumV,
                 sumV)),
        [method |-> "VanKrevelen"])

\* Math.min(mw / 200, 1.5) in units of 1/2000 (mw in tenths)
MarcusFactor(mw) == Min(mw, 3000)

calculateMarcus(molecule) ==
  LET fn  == MarcusFactor(molecule.molecularWeight)
      \* 4 * 100 * d^2, d = 17 * factor
      d2  == MulDivFloor(289 * fn, fn, 10000)
      \* 4 * 100 * p^2, p = 25 / factor
      q   == 1000000 \div fn
      r   == 1000000 % fn
      p2  == q * q + MulDivFloor(2 * q, r, fn)
      \* 4 * 100 * h^2, h = 15 / sqrt(factor)
      h2  == 180000000 \div fn
  IN  Spread(
        Spread([deltaD |-> RoundDiv(17 * fn, 200),
                deltaP |-> RoundDiv(500000, fn),
                deltaH |-> RoundSqrt4(h2)],
               calculateDerivedProperties(d2 + p2 + h2, d2 + p2,
                                          RoundDiv(4 * molecule.molecularWeight, 5))),
        [method |-> "Marcus"])

\* 298.15 K in hundredths of a kelvin
RoomTemp == 29815

\* calculateCostas after its own fragmentation: fragments is what that
\* fragmentMolecule call returned (NoFragments when it found nothing or failed).
calculateCostas(frags, molecule, temp) ==
  IF frags = NoFragments
  THEN [deltaD |-> 0, deltaP |-> 0, deltaH |-> 0, method |-> "Costas"]
  ELSE LET base == calculateVanKrevelen(frags, molecule.molecularWeight)
           dT   == temp - RoomTemp
           \* factor = 1 - alpha * dT and 1 + alpha * dT, alpha = 0.0011, per million
           down == 1000000 - 11 * dT
           up   == 1000000 + 11 * dT
           newD == RoundPerMillion(base.deltaD, down)
           newP == RoundPerMillion(base.deltaP, down)
           newH == RoundPerMillion(base.deltaH, down)
           \* (base.molarVolume || 100) * (1 + alpha * dT)
           newV == RoundPerMillion(
                     IF base.molarVolume = 0 THEN 1000 ELSE base.molarVolume, up)
           sq   == base.deltaD * base.deltaD + base.deltaP * base.deltaP
       IN  Spread(
             Spread([deltaD |-> newD, deltaP |-> newP, deltaH |-> newH],
                    calculateDerivedProperties(
                      ScalePerMillion(ScalePerMillion(
                        4 * (sq + base.deltaH * base.deltaH), down), down),
                      ScalePerMillion(ScalePerMillion(4 * sq, down), down),
                      newV)),
             [method |-> "Costas"])

\* a distance that counts only where mol1 exceeds mol2
calculateDistanceOneSided(per, mol1, mol2) ==
  LET dD == IF mol1.deltaD > mol2.deltaD THEN mol1.deltaD - mol2.deltaD ELSE 0
      dP == IF mol1.deltaP > mol2.deltaP THEN mol1.deltaP - mol2.deltaP ELSE 0
      dH == IF mol1.deltaH > mol2.deltaH THEN mol1.deltaH - mol2.deltaH ELSE 0
  IN  RoundSqrt4(MulDivFloor(4 * dD * dD + dP * dP + dH * dH, 400, per * per))

\* a distance rounded with toFixed(1)
calculateDistanceOneDecimal(per, mol1, mol2) ==
  LET dD == mol1.deltaD - mol2.deltaD
      dP == mol1.deltaP - mol2.deltaP
      dH == mol1.deltaH - mol2.deltaH
  IN  10 * RoundSqrt4(MulDivFloor(4 * dD * dD + dP * dP + dH * dH, 4, per * per))

\* a distance without the factor 4 on the dispersion term
calculateDistanceUnweighted(per, mol1, mol2) ==
  LET dD == mol1.deltaD - mol2.deltaD
      dP == mol1.deltaP - mol2.deltaP
      dH == mol1.deltaH - mol2.deltaH
  IN  RoundSqrt4(MulDivFloor(dD * dD + dP * dP + dH * dH, 400, per * per))

\* Ra in hundredths: parseFloat(Math.sqrt(4 dD^2 + dP^2 + dH^2).toFixed(2)),
\* for records whose deltaD, deltaP, deltaH are held in units of 1/per of a
\* tenth (per = 1: tenths, per = 100: thousandths)
calculateDistanceAt(per, mol1, mol2) ==
  LET dD == mol1.deltaD - mol2.deltaD
      dP == mol1.deltaP - mol2.deltaP
      dH == mol1.deltaH - mol2.deltaH
  IN  RoundSqrt4(MulDivFloor(4 * dD * dD + dP * dP + dH * dH, 400, per * per))

\* calculateDistance on the one-decimal records the methods return
calculateDistance(mol1, mol2) == calculateDistanceAt(1, mol1, mol2)

\* index of the first entry of table whose field f equals key, 0 when none
LookupFrom(table, f, key, i) ==
  IF \E j \in i..Len(table) : table[j][f] = key
  THEN CHOOSE j \in i..Len(table) :
         table[j][f] = key /\ \A k \in i..(j - 1) : table[k][f] # key
  ELSE 0

Lookup(table, f, key) == LookupFrom(table, f, key, 1)

\* REFERENCE_SOLVENTS and aliasMap are object literals: obj[key] also finds
\* what they inherit from Object.prototype.  key is lower-cased, so of the
\* inherited names only those without an upper-case letter can be asked for
\* (hasOwnProperty, toString, valueOf, ... cannot).
ObjectPrototype ==
  {<<"c", "o", "n", "s", "t", "r", "u", "c", "t", "o", "r">>,
   <<"_", "_", "p", "r", "o", "t", "o", "_", "_">>}

\* getReferenceData reading the reference table as it stands (table)
getReferenceDataIn(table, moleculeName) ==
  LET key == trim(toLowerCase(moleculeName))
      ix  == Lookup(table, "key", key)
      ax  == Lookup(aliasMap, "alias", key)
  IN  IF ix # 0 THEN table[ix]
      ELSE IF key \in ObjectPrototype THEN [inherited |-> key]  \* truthy, no HSP
      ELSE IF ax # 0 /\ Lookup(table, "key", aliasMap[ax].key) # 0
           THEN table[Lookup(table, "key", aliasMap[ax].key)]
           ELSE NULL

\* the table is a module-level const that no operation writes (C30)
getReferenceData(moleculeName) == getReferenceDataIn(REFERENCE_SOLVENTS, moleculeName)

\* molecule.englishName || molecule.name
PreferredName(molecule) ==
  IF molecule.englishName # <<>> THEN molecule.englishName ELSE molecule.name

isComplexMolecule(mol) ==
  Len(mol.smiles) > 10 \/ (includes(mol.smiles, "O") /\ includes(mol.smiles, "N"))

\* molecule.smiles && (includes('.') || includes('+') || includes('-'))
IsIonicSmiles(molecule) ==
  /\ molecule.smiles # <<>>
  /\ \/ includes(molecule.smiles, ".")
     \/ includes(molecule.smiles, "+")
     \/ includes(molecule.smiles, "-")

\* ------------------------------------------------------------------------
\* Molecule records handed to the engine.  parses and matches are what the
\* graph adapter (RDKit) answers for the record's SMILES: whether get_mol
\* yields a molecule, and, per SMARTS of the group table, the atom-index sets
\* get_substruct_matches reports on the hydrogen-expanded molecule (a SMARTS
\* not listed matches nothing).
\* ------------------------------------------------------------------------

Ethanol ==
  [id |-> "m-ethanol",
   name |-> <<"E", "t", "a", "n", "o", "l">>,
   englishName |-> <<"E", "t", "h", "a", "n", "o", "l">>,
   smiles |-> <<"C", "C", "O">>,
   molecularWeight |-> 461,
   parses |-> TRUE,
   matches |-> ("[OX2H]" :> {{2}}) @@ ("[CH3]" :> {{0}}) @@ ("[CH2]" :> {{1}})]

Water ==
  [id |-> "m-water",
   name |-> <<" ", "A_acute", "g", "u", "a">>,
   englishName |-> <<>>,
   smiles |-> <<"O">>,
   molecularWeight |-> 180,
   parses |-> TRUE,
   matches |-> <<>>]

Propanol ==
  [id |-> "m-propanol",
   name |-> <<"1", "-", "P", "r", "o", "p", "a", "n", "o", "l">>,
   englishName |-> <<>>,
   smiles |-> <<"C", "C", "C", "O">>,
   molecularWeight |-> 601,
   parses |-> TRUE,
   matches |-> ("[OX2H]" :> {{3}}) @@ ("[CH3]" :> {{0}}) @@ ("[CH2]" :> {{1}, {2}})]

Ethanolamine ==
  [id |-> "m-ethanolamine",
   name |-> <<"E", "t", "a", "n", "o", "l", "a", "m", "i", "n", "a">>,
   englishName |-> <<"E", "t", "h", "a", "n", "o", "l", "a", "m", "i", "n", "e">>,
   smiles |-> <<"N", "C", "C", "O">>,
   molecularWeight |-> 611,
   parses |-> TRUE,
   matches |-> ("[NX3;H2;!$(NC=O)]" :> {{0}}) @@ ("[OX2H]" :> {{3}}) @@ ("[CH2]" :> {{1}, {2}})]

Pentanetrione ==
  [id |-> "m-pentanetrione",
   name |-> <<"P", "e", "n", "t", "a", "n", "e", "-", "2", ",", "3", ",", "4", "-", "t", "r", "i", "o", "n", "e">>,
   englishName |-> <<>>,
   smiles |-> <<"C", "C", "(", "=", "O", ")", "C", "(", "=", "O", ")", "C", "(", "=", "O", ")", "C">>,
   molecularWeight |-> 1141,
   parses |-> TRUE,
   matches |-> ("[#6][CX3](=O)[#6]" :> {{0, 1, 2, 3}, {1, 3, 4, 5}, {3, 5, 6, 7}}) @@ ("[CH3]" :> {{0}, {7}}) @@ ("[CH0]" :> {{1}, {3}, {5}})]

SodiumChloride ==
  [id |-> "m-nacl",
   name |-> <<"S", "o", "d", "i", "u", "m", " ", "c", "h", "l", "o", "r", "i", "d", "e">>,
   englishName |-> <<>>,
   smiles |-> <<"[", "N", "a", "+", "]", ".", "[", "C", "l", "-", "]">>,
   molecularWeight |-> 584,
   parses |-> TRUE,
   matches |-> ("[Cl]" :> {{1}})]

SodiumIodide ==
  [id |-> "m-nai",
   name |-> <<"S", "o", "d", "i", "u", "m", " ", "i", "o", "d", "i", "d", "e">>,
   englishName |-> <<>>,
   smiles |-> <<"[", "N", "a", "+", "]", ".", "[", "I", "-", "]">>,
   molecularWeight |-> 1499,
   parses |-> TRUE,
   matches |-> <<>>]

NoSmiles ==
  [id |-> "m-nosmiles",
   name |-> <<"P", "o", "l", "y", "m", "e", "r", " ", "X">>,
   englishName |-> <<>>,
   smiles |-> <<>>,
   molecularWeight |-> 1000,
   parses |-> FALSE,
   matches |-> <<>>]

Unparseable ==
  [id |-> "m-unparseable",
   name |-> <<"U", "n", "k", "n", "o", "w", "n">>,
   englishName |-> <<>>,
   smiles |-> <<"C", "(", "C">>,
   molecularWeight |-> 300,
   parses |-> FALSE,
   matches |-> <<>>]

HydrogenSulfide ==
  [id |-> "m-h2s",
   name |-> <<"H", "y", "d", "r", "o", "g", "e", "n", " ", "s", "u", "l", "f", "i", "d", "e">>,
   englishName |-> <<>>,
   smiles |-> <<"S">>,
   molecularWeight |-> 341,
   parses |-> TRUE,
   matches |-> <<>>]

CarbonDioxide ==
  [id |-> "m-co2",
   name |-> <<"C", "a", "r", "b", "o", "n", " ", "d", "i", "o", "x", "i", "d", "e">>,
   englishName |-> <<>>,
   smiles |-> <<"O", "=", "C", "=", "O">>,
   molecularWeight |-> 440,
   parses |-> TRUE,
   matches |-> ("[CH0]" :> {{1}})]

Methanol ==
  [id |-> "m-methanol",
   name |-> <<"M", "e", "t", "a", "n", "o", "l">>,
   englishName |-> <<>>,
   smiles |-> <<"C", "O">>,
   molecularWeight |-> 320,
   parses |-> TRUE,
   matches |-> ("[OX2H]" :> {{1}}) @@ ("[CH3]" :> {{0}})]

Methylglyoxal ==
  [id |-> "m-methylglyoxal",
   name |-> <<"M", "e", "t", "h", "y", "l", "g", "l", "y", "o", "x", "a", "l">>,
   englishName |-> <<>>,
   smiles |-> <<"C", "C", "(", "=", "O", ")", "C", "=", "O">>,
   molecularWeight |-> 721,
   parses |-> TRUE,
   matches |-> ("[#6][CX3](=O)[#6]" :> {{0, 1, 2, 3}}) @@ ("[CX3H1](=O)" :> {{3, 4}})
                 @@ ("[CH3]" :> {{0}}) @@ ("[CH1]" :> {{3}}) @@ ("[CH0]" :> {{1}})]

Molecules ==
  {Ethanol, Water, Propanol, Ethanolamine, Pentanetrione, SodiumChloride, SodiumIodide, NoSmiles, Unparseable, HydrogenSulfide, CarbonDioxide, Methanol, Methylglyoxal}

MatchesOf(molecule, smarts) ==
  IF smarts \in DOMAIN molecule.matches THEN molecule.matches[smarts] ELSE {}

\* ------------------------------------------------------------------------
\* Greedy fragmentation
\* ------------------------------------------------------------------------

RECURSIVE InsertByPriorityTiesFirst(_, _)
\* an insertion that puts g before the entries of its own priority
InsertByPriorityTiesFirst(sorted, g) ==
  IF sorted = <<>> THEN <<g>>
  ELSE IF Head(sorted).priority > g.priority
       THEN <<Head(sorted)>> \o InsertByPriorityTiesFirst(Tail(sorted), g)
       ELSE <<g>> \o sorted

RECURSIVE InsertByPriority(_, _)
\* g goes after every entry whose priority is >= its own (the sort is stable)
InsertByPriority(sorted, g) ==
  IF sorted = <<>> THEN <<g>>
  ELSE IF Head(sorted).priority >= g.priority
       THEN <<Head(sorted)>> \o InsertByPriority(Tail(sorted), g)
       ELSE <<g>> \o sorted

RECURSIVE SortByPriority(_, _)
SortByPriority(sorted, rest) ==
  IF rest = <<>> THEN sorted
  ELSE SortByPriority(InsertByPriority(sorted, Head(rest)), Tail(rest))

\* [...FUNCTIONAL_GROUPS].sort((a, b) => b.priority - a.priority)
sortedGroups == SortByPriority(<<>>, FUNCTIONAL_GROUPS)

\* the two tables as the module declares them
PristineTables ==
  [FUNCTIONAL_GROUPS |-> FUNCTIONAL_GROUPS, REFERENCE_SOLVENTS |-> REFERENCE_SOLVENTS]

\* a sort of the table itself: FUNCTIONAL_GROUPS.sort(...)
sortInPlace(groups) ==
  [table |-> SortByPriority(<<>>, groups), sorted |-> SortByPriority(<<>>, groups)]

\* [...groups].sort(...): the copy is sorted, the table is left as it was
sortCopy(groups) == [table |-> groups, sorted |-> SortByPriority(<<>>, groups)]

\* an overlap test that needs every index of the match to be consumed
isOverlapWhole(indices, consumed) ==
  indices # {} /\ \A idx \in indices : idx \in consumed

\* an overlap test that asks whether anything at all is consumed
isOverlapAnyConsumed(indices, consumed) == consumed # {}

\* for (const idx of indices) if (consumedAtoms.has(idx)) isOverlap = true
isOverlap(indices, consumed) == \E idx \in indices : idx \in consumed

RECURSIVE MatchLoop(_, _, _)
\* the loop over one group's matches, in the order the matcher returned them
MatchLoop(matches, consumed, count) ==
  IF matches = <<>>
  THEN [groupCount |-> count, consumedAtoms |-> consumed]
  ELSE IF isOverlap(Head(matches), consumed)
       THEN MatchLoop(Tail(matches), consumed, count)
       ELSE MatchLoop(Tail(matches), consumed \cup Head(matches), count + 1)

RECURSIVE GroupLoop(_, _, _, _)
\* the loop over sortedGroups; returned[smarts] is the match sequence the
\* matcher returned for that pattern
GroupLoop(groups, returned, consumed, frags) ==
  IF groups = <<>> THEN frags
  ELSE LET group == Head(groups)
           r     == MatchLoop(returned[group.smarts], consumed, 0)
       IN  GroupLoop(Tail(groups), returned, r.consumedAtoms,
                     IF r.groupCount > 0
                     THEN Append(frags, [group |-> group, count |-> r.groupCount])
                     ELSE frags)

\* every order in which a set of matches can be returned
Orders(S) ==
  {s \in [1..Cardinality(S) -> S] : \A i, j \in 1..Cardinality(S) : i # j => s[i] # s[j]}

AllSmarts == {FUNCTIONAL_GROUPS[i].smarts : i \in 1..Len(FUNCTIONAL_GROUPS)}

RECURSIVE ReturnsUpTo(_, _)
\* every way the matcher can answer the first n patterns of the table
ReturnsUpTo(molecule, n) ==
  IF n = 0 THEN {<<>>}
  ELSE {(FUNCTIONAL_GROUPS[n].smarts :> o) @@ r :
          o \in Orders(MatchesOf(molecule, FUNCTIONAL_GROUPS[n].smarts)),
          r \in ReturnsUpTo(molecule, n - 1)}

\* every way the matcher can answer the patterns of the table for molecule
Returns(molecule) == ReturnsUpTo(molecule, Len(FUNCTIONAL_GROUPS))

\* Adapter behaviour during one fragmentMolecule call
AdapterFaults ==
  {"none", "get_mol throws", "get_qmol throws", "get_substruct_matches throws"}

\* How a call completes: normally with a value, or by throwing
Returned(v) == [thrown |-> FALSE, value |-> v]

Thrown == [thrown |-> TRUE, value |-> NoFragments]

\* the body of fragmentMolecule's try block once `await this.init()` has
\* settled: RDKit is the awaited module (NULL when init threw or its promise
\* rejected, which throws here), returned the matcher's answers, fault the
\* adapter's behaviour during this call.
fragmentTry(molecule, RDKit, returned, fault) ==
  IF RDKit = NULL THEN Thrown                               \* await this.init()
  ELSE IF molecule.smiles = <<>> THEN Returned(NoFragments)   \* if (!molecule.smiles)
  ELSE IF fault = "get_mol throws" THEN Thrown
  ELSE IF ~molecule.parses THEN Returned(NoFragments)         \* if (!mol)
  ELSE IF fault = "get_qmol throws" THEN Thrown
  ELSE Returned(GroupLoop(sortedGroups,
                          IF fault = "get_substruct_matches throws"
                          THEN [s \in AllSmarts |-> <<>>]    \* catch(e) { matches = [] }
                          ELSE returned,
                          {}, <<>>))

\* a fragmentMolecule whose exceptions escape
fragmentMoleculeUncaught(molecule, RDKit, returned, fault) ==
  fragmentTry(molecule, RDKit, returned, fault)

\* try { ... } catch (e) { console.error(...); return null; }
fragmentMolecule(molecule, RDKit, returned, fault) ==
  LET c == fragmentTry(molecule, RDKit, returned, fault)
  IN  IF c.thrown THEN Returned(NoFragments) ELSE c

\* the adapter's possible behaviours for a molecule: answers and fault
AdapterRuns ==
  [m \in Molecules |-> {[returned |-> r, fault |-> f] : r \in Returns(m), f \in AdapterFaults}]

\* how fragmentMolecule can complete, tabulated by molecule and by whether
\* init yielded the module
FragmentCompletionsOf ==
  {[molecule |-> m, loaded |-> l,
    completions |-> {fragmentMolecule(m, IF l THEN [instance |-> 1] ELSE NULL,
                                      a.returned, a.fault) : a \in AdapterRuns[m]}] :
     m \in Molecules, l \in BOOLEAN}

\* how fragmentMolecule can complete for a molecule once init yielded RDKit
FragmentCompletions(molecule, RDKit) ==
  (CHOOSE t \in FragmentCompletionsOf :
     t.molecule = molecule /\ t.loaded = (RDKit # NULL)).completions

\* every pattern of the table compiles
WellFormed == [smarts |-> "", report |-> "compiles"]

\* the table as the adapter sees it: all patterns compile, or one of them does
\* not, which get_qmol reports by returning null or by throwing
Malformations ==
  {WellFormed} \cup
    {[smarts |-> s, report |-> r] : s \in AllSmarts, r \in {"returns null", "throws"}}

\* ------------------------------------------------------------------------
\* 3. Engine: state
\* ------------------------------------------------------------------------

VARIABLES
  hasInitRDKitModule,    \* window.initRDKitModule is defined (the script loaded)
  RDKitModule,           \* window.RDKitModule: NULL or the engine instance
  rdkitModulePromise,    \* module-level promise: NULL or [state, instance]
  initRDKitModuleCalls,  \* how many times window.initRDKitModule was invoked
  tables,                \* the module-level FUNCTIONAL_GROUPS and REFERENCE_SOLVENTS arrays/objects
  processed,             \* (history) ids of the molecules the engine has been handed
  pc,                    \* where the engine call in flight stands
  op,                    \* "processMolecule" or "calculate"
  arg,                   \* its molecule argument
  argHsp,                \* that molecule's hsp field (NULL when absent)
  method,                \* calculate's method argument
  awaiting,              \* what the pending `await this.init()` was handed
  fragments,             \* processMolecule's local, after its first await
  console,               \* the validation line processMolecule logged
  costas,                \* processMolecule's costasHSP / calculate's Costas result
  outcome,               \* how the call's promise settled: resolved or rejected
  result,                \* the value the call's promise resolved to
  callers,               \* concurrent init() callers: slot -> record
  consumedAtoms,         \* fragmentMolecule, step by step: atoms claimed so far
  groupCount,            \*   accepted matches of the current group
  accepted,              \*   the accepted matches, in acceptance order
  passedOver,            \*   (history) the matches rejected as overlapping
  groupIndex,            \*   position in sortedGroups
  pending,               \*   matches of the current group not yet examined
  native,                \*   native objects acquired and not yet deleted
  malformed,             \*   the table pattern get_qmol cannot compile, if any
  answers,               \*   (history) pattern -> matches as the matcher returned them
  project                \* App state: projectMolecules and handlers in flight

engineVars ==
  <<hasInitRDKitModule, RDKitModule, rdkitModulePromise, initRDKitModuleCalls, tables,
    processed>>

callVars ==
  <<pc, op, arg, argHsp, method, awaiting, fragments, costas, console, outcome, result>>

fragVars ==
  <<consumedAtoms, groupCount, accepted, passedOver, groupIndex, pending,
    native, malformed, answers>>

vars ==
  <<hasInitRDKitModule, RDKitModule, rdkitModulePromise, initRDKitModuleCalls, tables,
    processed, pc, op, arg, argHsp, method, awaiting, fragments, costas, console, outcome, result,
    callers, consumedAtoms, groupCount, accepted, passedOver, groupIndex, pending,
    native, malformed, answers, project>>

\* ------------------------------------------------------------------------
\* HansenCalculator.init
\* ------------------------------------------------------------------------

\* an init without `if (rdkitModulePromise) return rdkitModulePromise`
initInvokesWhilePending ==
  /\ RDKitModule = NULL
  /\ hasInitRDKitModule

\* init reaches `rdkitModulePromise = window.initRDKitModule().then(...)`
initInvokesModule ==
  /\ RDKitModule = NULL
  /\ rdkitModulePromise = NULL
  /\ hasInitRDKitModule

\* what `this.init()` hands its caller: the module, the shared promise, or
\* the rejection of `throw new Error("RDKit library not found...")`
initReturn ==
  IF RDKitModule # NULL THEN [kind |-> "value", instance |-> RDKitModule]
  ELSE IF rdkitModulePromise # NULL \/ hasInitRDKitModule THEN [kind |-> "promise"]
  ELSE [kind |-> "throw"]

\* the synchronous body of init: its effect on the module-level state
init ==
  /\ rdkitModulePromise' =
       IF initInvokesModule THEN [state |-> "pending"] ELSE rdkitModulePromise
  /\ initRDKitModuleCalls' =
       IF initInvokesModule THEN initRDKitModuleCalls + 1 ELSE initRDKitModuleCalls
  /\ UNCHANGED <<hasInitRDKitModule, RDKitModule, tables, processed>>

\* the awaited init() has settled for a caller that was handed a
Settled(a) ==
  IF a.kind = "promise" THEN rdkitModulePromise.state # "pending" ELSE TRUE

\* the module the await yields, NULL when it throws into the caller's catch
Awaited(a) ==
  IF a.kind = "value" THEN a.instance
  ELSE IF a.kind = "promise" /\ rdkitModulePromise.state = "fulfilled"
       THEN rdkitModulePromise.instance
       ELSE NULL

\* window.initRDKitModule()'s promise fulfils: the .then callback stores the
\* instance in window.RDKitModule and the derived promise fulfils with it
InitFulfils ==
  /\ rdkitModulePromise # NULL
  /\ rdkitModulePromise.state = "pending"
  /\ RDKitModule' = [instance |-> initRDKitModuleCalls]
  /\ rdkitModulePromise' =
       [state |-> "fulfilled", instance |-> [instance |-> initRDKitModuleCalls]]
  /\ UNCHANGED <<hasInitRDKitModule, initRDKitModuleCalls, tables, processed>>

\* window.initRDKitModule()'s promise rejects: the derived promise rejects
InitRejects ==
  /\ rdkitModulePromise # NULL
  /\ rdkitModulePromise.state = "pending"
  /\ rdkitModulePromise' = [state |-> "rejected"]
  /\ UNCHANGED <<hasInitRDKitModule, RDKitModule, initRDKitModuleCalls, tables, processed>>

\* ------------------------------------------------------------------------
\* HansenCalculator.processMolecule and HansenCalculator.calculate
\* ------------------------------------------------------------------------

\* the table's value for a name: getReferenceData's entry without its key
ReferenceOf(molecule) ==
  LET e == getReferenceData(PreferredName(molecule))
  IN  IF e = NULL THEN NULL
      ELSE [deltaD |-> e.deltaD, deltaP |-> e.deltaP, deltaH |-> e.deltaH,
            method |-> e.method]

\* { ...refData, ...calculateDerivedProperties(.., molecularWeight / 0.9),
\*   method: 'Experimental (Ref)' }
completeRef(refData, molecule) ==
  Spread(Spread(refData,
                DerivedOfTenths(refData.deltaD, refData.deltaP, refData.deltaH,
                                RoundDiv(10 * molecule.molecularWeight, 9))),
         [method |-> "Experimental (Ref)"])

ManualPlaceholder == [deltaD |-> 0, deltaP |-> 0, deltaH |-> 0, method |-> "Manual"]

vkhOf(molecule, frags) ==
  IF frags # NoFragments THEN calculateVanKrevelen(frags, molecule.molecularWeight) ELSE NULL

spOf(molecule, frags) ==
  IF frags # NoFragments THEN calculateStefanis(frags, molecule.molecularWeight) ELSE NULL

marcusOf(molecule) ==
  IF IsIonicSmiles(molecule) THEN calculateMarcus(molecule) ELSE NULL

\* a selection that prefers the group-contribution result to the ionic route
selectGroupContributionFirst(molecule, vkhHSP, spHSP, costasHSP, marcusHSP) ==
  IF vkhHSP # NULL THEN vkhHSP
  ELSE IF spHSP # NULL /\ isComplexMolecule(molecule) THEN spHSP
  ELSE IF marcusHSP # NULL THEN marcusHSP
  ELSE IF costasHSP # NULL THEN costasHSP
  ELSE ManualPlaceholder

\* a selection without rule A (salts and ionic liquids)
selectWithoutIonicRule(molecule, vkhHSP, spHSP, costasHSP, marcusHSP) ==
  IF spHSP # NULL /\ isComplexMolecule(molecule) THEN spHSP
  ELSE IF vkhHSP # NULL THEN vkhHSP
  ELSE IF costasHSP # NULL THEN costasHSP
  ELSE ManualPlaceholder

\* 4. heuristic selection (no reference)
selectHSP(molecule, vkhHSP, spHSP, costasHSP, marcusHSP) ==
  IF marcusHSP # NULL THEN marcusHSP
  ELSE IF spHSP # NULL /\ isComplexMolecule(molecule) THEN spHSP
  ELSE IF vkhHSP # NULL THEN vkhHSP
  ELSE IF costasHSP # NULL THEN costasHSP
  ELSE ManualPlaceholder

\* 3. the results pushed for validation, in push order
validationResults(refData, vkhHSP, spHSP, costasHSP, marcusHSP) ==
  LET all == <<vkhHSP, spHSP, costasHSP, marcusHSP>>
      tag == <<"VanKrevelen", "Stefanis", "Costas", "Marcus">>
      ix  == SelectSeq(<<1, 2, 3, 4>>, LAMBDA i : all[i] # NULL)
  IN  [j \in 1..Len(ix) |->
         [method |-> tag[ix[j]], hsp |-> all[ix[j]],
          error |-> calculateDistance(all[ix[j]], refData)]]

\* results.sort((a, b) => a.error - b.error); results[0]
Winner(results) ==
  IF results = <<>> THEN NULL
  ELSE results[CHOOSE i \in 1..Len(results) :
                 /\ \A j \in 1..Len(results) : results[i].error <= results[j].error
                 /\ \A j \in 1..(i - 1) : results[j].error > results[i].error]

\* the line processMolecule logs when a reference entry exists
validationLog(molecule, frags, costasHSP) ==
  LET refData == ReferenceOf(molecule)
  IN  IF refData = NULL THEN NULL
      ELSE LET w == Winner(validationResults(refData, vkhOf(molecule, frags),
                                             spOf(molecule, frags), costasHSP,
                                             marcusOf(molecule)))
           IN  IF w = NULL THEN NULL ELSE [Winner |-> w.method, Ra |-> w.error]

\* a processMolecule that returns the validation winner when a reference exists
processMoleculeWinner(molecule, frags, costasHSP) ==
  LET refData == ReferenceOf(molecule)
      w == IF refData = NULL THEN NULL
           ELSE Winner(validationResults(refData, vkhOf(molecule, frags),
                                         spOf(molecule, frags), costasHSP,
                                         marcusOf(molecule)))
  IN  IF w # NULL
      THEN Spread(molecule, [hsp |-> w.hsp])
      ELSE Spread(molecule,
                  [hsp |-> selectHSP(molecule, vkhOf(molecule, frags),
                                     spOf(molecule, frags), costasHSP,
                                     marcusOf(molecule))])

\* the value processMolecule resolves to, from its locals
processMolecule(molecule, frags, costasHSP) ==
  LET refData == ReferenceOf(molecule)
  IN  IF refData # NULL
      THEN Spread(molecule, [hsp |-> completeRef(refData, molecule)])
      ELSE Spread(molecule,
                  [hsp |-> selectHSP(molecule, vkhOf(molecule, frags),
                                     spOf(molecule, frags), costasHSP,
                                     marcusOf(molecule))])

Methods ==
  {"Auto", "VanKrevelen", "Stefanis", "Marcus", "Costas", "Manual", "Experimental (Ref)"}

\* calculate's method after `method = 'Auto'` (no experimental data)
EffectiveMethod(molecule, m) ==
  IF m = "Experimental (Ref)" /\ ReferenceOf(molecule) = NULL THEN "Auto" ELSE m

\* calculate returns before any fragmentation
calculateReturnsAtOnce(molecule, m) ==
  \/ m = "Manual"
  \/ m = "Experimental (Ref)" /\ ReferenceOf(molecule) # NULL
  \/ EffectiveMethod(molecule, m) = "Marcus"

\* a calculate without the `if (method === 'Stefanis')` line
calculateWithoutStefanis(molecule, hsp, m, frags) ==
  IF m = "Manual" THEN (IF hsp # NULL THEN hsp ELSE ManualPlaceholder)
  ELSE IF m = "Experimental (Ref)" /\ ReferenceOf(molecule) # NULL
       THEN completeRef(ReferenceOf(molecule), molecule)
  ELSE IF EffectiveMethod(molecule, m) = "Marcus" THEN calculateMarcus(molecule)
  ELSE IF EffectiveMethod(molecule, m) = "Costas"
       THEN calculateCostas(frags, molecule, RoomTemp)
  ELSE IF frags = NoFragments THEN NULL
  ELSE calculateVanKrevelen(frags, molecule.molecularWeight)

\* the value calculate resolves to; hsp is molecule.hsp (NULL when absent) and
\* frags what the fragmentMolecule call it reaches returned
calculate(molecule, hsp, m, frags) ==
  IF m = "Manual" THEN (IF hsp # NULL THEN hsp ELSE ManualPlaceholder)
  ELSE IF m = "Experimental (Ref)" /\ ReferenceOf(molecule) # NULL
       THEN completeRef(ReferenceOf(molecule), molecule)
  ELSE IF EffectiveMethod(molecule, m) = "Marcus" THEN calculateMarcus(molecule)
  ELSE IF EffectiveMethod(molecule, m) = "Costas"
       THEN calculateCostas(frags, molecule, RoomTemp)
  ELSE IF frags = NoFragments THEN NULL
  ELSE IF EffectiveMethod(molecule, m) = "Stefanis"
       THEN calculateStefanis(frags, molecule.molecularWeight)
  ELSE calculateVanKrevelen(frags, molecule.molecularWeight)

\* hsp fields a molecule handed to calculate may already carry
ExistingHsp ==
  {NULL,
   [deltaD |-> 150, deltaP |-> 50, deltaH |-> 70, method |-> "Manual"],
   calculateMarcus(Propanol)}

\* the fragment lists fragmentMolecule can resolve to for a molecule
FragmentValues(m) ==
  {c.value : c \in FragmentCompletions(m, NULL) \cup FragmentCompletions(m, [instance |-> 1])}

\* processMolecule's costasHSP, its validation log line and its return value,
\* tabulated by molecule and by what its two fragmentMolecule calls returned
processMoleculeOf ==
  UNION {{[molecule |-> m, first |-> first, second |-> second,
           costas |-> calculateCostas(second, m, RoomTemp),
           console |-> validationLog(m, first, calculateCostas(second, m, RoomTemp)),
           result |-> processMolecule(m, first, calculateCostas(second, m, RoomTemp))] :
            first \in FragmentValues(m), second \in FragmentValues(m)} : m \in Molecules}

processMoleculeAt(m, first, second) ==
  CHOOSE t \in processMoleculeOf :
    t.molecule = m /\ t.first = first /\ t.second = second

\* calculate's return value, tabulated by its arguments and by what the
\* fragmentMolecule call it reaches returned
calculateOf ==
  UNION {{[molecule |-> m, hsp |-> h, method |-> t, fragments |-> frags,
           result |-> calculate(m, h, t, frags)] :
            h \in ExistingHsp, t \in Methods, frags \in FragmentValues(m)} : m \in Molecules}

calculateAt(m, h, t, frags) ==
  (CHOOSE r \in calculateOf :
     r.molecule = m /\ r.hsp = h /\ r.method = t /\ r.fragments = frags).result

\* ------------------------------------------------------------------------
\* Engine: one call at a time, step by step (each await is a step)
\* ------------------------------------------------------------------------

Idle ==
  /\ pc = "idle"
  /\ op = "none"
  /\ arg = NULL
  /\ argHsp = NULL
  /\ method = "none"
  /\ awaiting = NULL
  /\ fragments = NoFragments
  /\ costas = NULL
  /\ console = NULL
  /\ outcome = "none"
  /\ result = NULL

\* an exception escaped the async function: its promise rejects
Rejects ==
  /\ pc' = "done"
  /\ outcome' = "rejected"
  /\ result' = NULL

\* processMolecule up to the await inside its first fragmentMolecule
CallProcessMolecule ==
  /\ pc = "idle"
  /\ \E m \in Molecules : arg' = m
  /\ op' = "processMolecule"
  /\ awaiting' = initReturn
  /\ init
  /\ pc' = "processMolecule:fragment"
  /\ UNCHANGED <<argHsp, method, fragments, costas, console, outcome, result>>

\* the first fragmentMolecule completes; calculateCostas starts the second
ProcessMoleculeFragmented ==
  /\ pc = "processMolecule:fragment"
  /\ Settled(awaiting)
  /\ \E c \in FragmentCompletions(arg, Awaited(awaiting)) :
       IF c.thrown
       THEN /\ Rejects
            /\ UNCHANGED <<engineVars, awaiting, fragments>>
       ELSE /\ fragments' = c.value
            /\ awaiting' = initReturn
            /\ init
            /\ pc' = "processMolecule:costas"
            /\ UNCHANGED <<outcome, result>>
  /\ UNCHANGED <<op, arg, argHsp, method, costas, console>>

\* calculateCostas completes; validation or selection; the call resolves
ProcessMoleculeReturns ==
  /\ pc = "processMolecule:costas"
  /\ Settled(awaiting)
  /\ \E c \in FragmentCompletions(arg, Awaited(awaiting)) :
       IF c.thrown
       THEN /\ Rejects
            /\ UNCHANGED <<costas, console>>
       ELSE /\ costas' = processMoleculeAt(arg, fragments, c.value).costas
            /\ console' = processMoleculeAt(arg, fragments, c.value).console
            /\ result' = processMoleculeAt(arg, fragments, c.value).result
            /\ outcome' = "resolved"
            /\ pc' = "done"
  /\ UNCHANGED <<engineVars, op, arg, argHsp, method, awaiting, fragments>>

\* calculate on a path that needs no fragmentation
CalculateAtOnce ==
  /\ pc = "idle"
  /\ \E m \in Molecules, h \in ExistingHsp, t \in Methods :
       /\ calculateReturnsAtOnce(m, t)
       /\ arg' = m
       /\ argHsp' = h
       /\ method' = t
       /\ result' = calculateAt(m, h, t, NoFragments)
  /\ op' = "calculate"
  /\ outcome' = "resolved"
  /\ pc' = "done"
  /\ UNCHANGED <<engineVars, awaiting, fragments, costas, console>>

\* calculate up to the await inside fragmentMolecule
CallCalculate ==
  /\ pc = "idle"
  /\ \E m \in Molecules, h \in ExistingHsp, t \in Methods :
       /\ ~calculateReturnsAtOnce(m, t)
       /\ arg' = m
       /\ argHsp' = h
       /\ method' = t
  /\ op' = "calculate"
  /\ awaiting' = initReturn
  /\ init
  /\ pc' = "calculate:fragment"
  /\ UNCHANGED <<fragments, costas, console, outcome, result>>

\* fragmentMolecule completes and calculate resolves
CalculateReturns ==
  /\ pc = "calculate:fragment"
  /\ Settled(awaiting)
  /\ \E c \in FragmentCompletions(arg, Awaited(awaiting)) :
       IF c.thrown
       THEN /\ Rejects
            /\ UNCHANGED fragments
       ELSE /\ fragments' = c.value
            /\ result' = calculateAt(arg, argHsp, method, c.value)
            /\ outcome' = "resolved"
            /\ pc' = "done"
  /\ UNCHANGED <<engineVars, op, arg, argHsp, method, awaiting, costas, console>>

\* the caller has consumed the settled promise
Return ==
  /\ pc = "done"
  /\ pc' = "idle"
  /\ op' = "none"
  /\ arg' = NULL
  /\ argHsp' = NULL
  /\ method' = "none"
  /\ awaiting' = NULL
  /\ fragments' = NoFragments
  /\ costas' = NULL
  /\ console' = NULL
  /\ outcome' = "none"
  /\ result' = NULL
  /\ UNCHANGED engineVars

EngineInit ==
  /\ hasInitRDKitModule \in BOOLEAN
  /\ RDKitModule = NULL
  /\ rdkitModulePromise = NULL
  /\ initRDKitModuleCalls = 0
  /\ tables = PristineTables
  /\ processed = {}

\* the parts of the state a specification does not use
NoCallers == callers = <<>>

NoFragmentation ==
  /\ consumedAtoms = {}
  /\ groupCount = 0
  /\ accepted = <<>>
  /\ passedOver = <<>>
  /\ groupIndex = 0
  /\ pending = <<>>
  /\ native = {}
  /\ malformed = WellFormed
  /\ answers = <<>>

NoProject == project = <<>>

Init ==
  /\ EngineInit
  /\ Idle
  /\ NoCallers
  /\ NoFragmentation
  /\ NoProject

Next ==
  \/ CallProcessMolecule /\ UNCHANGED <<callers, fragVars, project>>
  \/ ProcessMoleculeFragmented /\ UNCHANGED <<callers, fragVars, project>>
  \/ ProcessMoleculeReturns /\ UNCHANGED <<callers, fragVars, project>>
  \/ CalculateAtOnce /\ UNCHANGED <<callers, fragVars, project>>
  \/ CallCalculate /\ UNCHANGED <<callers, fragVars, project>>
  \/ CalculateReturns /\ UNCHANGED <<callers, fragVars, project>>
  \/ Return /\ UNCHANGED <<callers, fragVars, project>>
  \/ InitFulfils /\ UNCHANGED <<callVars, callers, fragVars, project>>
  \/ InitRejects /\ UNCHANGED <<callVars, callers, fragVars, project>>

Spec == Init /\ [][Next]_vars

\* the engine with its scheduling: a settled await resumes, and the engine's
\* initialisation promise settles
FairSpec ==
  /\ Spec
  /\ WF_vars(ProcessMoleculeFragmented /\ UNCHANGED <<callers, fragVars, project>>)
  /\ WF_vars(ProcessMoleculeReturns /\ UNCHANGED <<callers, fragVars, project>>)
  /\ WF_vars(CalculateReturns /\ UNCHANGED <<callers, fragVars, project>>)
  /\ WF_vars((InitFulfils \/ InitRejects)
               /\ UNCHANGED <<callVars, callers, fragVars, project>>)

\* ------------------------------------------------------------------------
\* Properties of processMolecule and calculate
\* ------------------------------------------------------------------------

ProcessMoleculeDone == pc = "done" /\ op = "processMolecule" /\ outcome = "resolved"

CalculateDone == pc = "done" /\ op = "calculate" /\ outcome = "resolved"

HasReference == getReferenceData(PreferredName(arg)) # NULL

SmilesAbsentOrUnparseable == arg.smiles = <<>> \/ ~arg.parses

C3_SelectionPriority ==
  (ProcessMoleculeDone /\ ~HasReference) =>
    result.hsp =
      IF arg.smiles # <<>> /\ (\E c \in {".", "+", "-"} : includes(arg.smiles, c))
      THEN calculateMarcus(arg)
      ELSE IF /\ fragments # NoFragments
              /\ \/ Len(arg.smiles) > 10
                 \/ includes(arg.smiles, "O") /\ includes(arg.smiles, "N")
           THEN calculateStefanis(fragments, arg.molecularWeight)
      ELSE IF fragments # NoFragments
           THEN calculateVanKrevelen(fragments, arg.molecularWeight)
      ELSE IF costas # NULL THEN costas
      ELSE [deltaD |-> 0, deltaP |-> 0, deltaH |-> 0, method |-> "Manual"]

\* an ionic molecule with fragments and no reference entry gets the Marcus result
C3_Witness ==
  /\ ProcessMoleculeDone
  /\ ~HasReference
  /\ fragments # NoFragments
  /\ includes(arg.smiles, "+")
  /\ result.hsp.method = "Marcus"

\* C4: a molecule with no smiles or an unparseable one, not ionic and with no
\* reference entry, gets hsp (0, 0, 0) tagged 'Manual' from processMolecule.
C4_ManualPlaceholder ==
  ( /\ ProcessMoleculeDone
    /\ SmilesAbsentOrUnparseable
    /\ ~IsIonicSmiles(arg)
    /\ ~HasReference ) =>
    /\ result.hsp.deltaD = 0
    /\ result.hsp.deltaP = 0
    /\ result.hsp.deltaH = 0
    /\ result.hsp.method = "Manual"

PredictiveOrRef == {"VanKrevelen", "Stefanis", "Costas", "Marcus", "Experimental (Ref)"}

\* C7 as stated: whenever calculate(mol, M) returns a result for M among
\* VanKrevelen, Stefanis, Costas, Marcus and 'Experimental (Ref)', the
\* result's method tag is M.
C7_TagIsRequested ==
  (CalculateDone /\ method \in PredictiveOrRef /\ result # NULL) =>
    result.method = method

\* C7: whenever calculate(mol, M) returns a result, its tag is M for the four
\* predictive methods and for 'Experimental (Ref)' with a reference entry;
\* 'Experimental (Ref)' without a reference entry falls back to Auto and its
\* result is tagged 'VanKrevelen'.
C7_TagIsRequestedOrFallback ==
  (CalculateDone /\ method \in PredictiveOrRef /\ result # NULL) =>
    result.method =
      IF method = "Experimental (Ref)" /\ ~HasReference THEN "VanKrevelen" ELSE method

\* 'Experimental (Ref)' asked for a molecule with fragments and no entry
C7_Witness ==
  /\ CalculateDone
  /\ method = "Experimental (Ref)"
  /\ ~HasReference
  /\ result # NULL
  /\ result.method = "VanKrevelen"

\* C10: calculate with VanKrevelen, Stefanis or Costas on a molecule whose
\* smiles is absent or unparseable resolves to null, and does not throw.
C10_UnavailableIsNull ==
  ( /\ pc = "done"
    /\ op = "calculate"
    /\ method \in {"VanKrevelen", "Stefanis", "Costas"}
    /\ SmilesAbsentOrUnparseable ) =>
    /\ outcome = "resolved"
    /\ result = NULL

\* C5: a processMolecule call never rejects and, the initialisation promise
\* settling, eventually resolves to the molecule with an hsp field, even when
\* the engine failed to load.
C5_ProcessMoleculeResolves ==
  /\ [](op = "processMolecule" => outcome # "rejected")
  /\ (op = "processMolecule" /\ pc # "done")
       ~> (ProcessMoleculeDone /\ "hsp" \in DOMAIN result /\ result.id = arg.id)

\* processMolecule resolved although the engine's promise rejected
C5_Witness ==
  /\ ProcessMoleculeDone
  /\ rdkitModulePromise = [state |-> "rejected"]
  /\ "hsp" \in DOMAIN result

\* ------------------------------------------------------------------------
\* Concurrent callers of HansenCalculator.init
\* ------------------------------------------------------------------------

MaxCallers == 3

Callers == 1..MaxCallers

\* caller i evaluates `await this.init()`: the synchronous body of init runs
CallerCallsInit(i) ==
  /\ callers[i].pc = "idle"
  /\ init
  /\ callers' = [callers EXCEPT ![i] =
                   [pc |-> IF initReturn.kind = "throw" THEN "threw" ELSE "awaiting",
                    handed |-> initReturn, got |-> NULL]]

\* the await of caller i resumes with the module, or throws
CallerResumes(i) ==
  /\ callers[i].pc = "awaiting"
  /\ Settled(callers[i].handed)
  /\ callers' = [callers EXCEPT ![i] =
                   [pc |-> IF Awaited(callers[i].handed) = NULL THEN "threw" ELSE "got",
                    handed |-> callers[i].handed,
                    got |-> Awaited(callers[i].handed)]]
  /\ UNCHANGED engineVars

InitCallers ==
  /\ EngineInit
  /\ Idle
  /\ callers = [i \in Callers |-> [pc |-> "idle", handed |-> NULL, got |-> NULL]]
  /\ NoFragmentation
  /\ NoProject

NextInit ==
  \/ \E i \in Callers : CallerCallsInit(i) /\ UNCHANGED <<callVars, fragVars, project>>
  \/ \E i \in Callers : CallerResumes(i) /\ UNCHANGED <<callVars, fragVars, project>>
  \/ InitFulfils /\ UNCHANGED <<callVars, callers, fragVars, project>>
  \/ InitRejects /\ UNCHANGED <<callVars, callers, fragVars, project>>

SpecInit == InitCallers /\ [][NextInit]_vars

\* C9: in any interleaving of init calls window.initRDKitModule is invoked at
\* most once, and all callers that obtain an engine obtain the same instance.
C9_InitOnce ==
  /\ initRDKitModuleCalls <= 1
  /\ \A i, j \in DOMAIN callers :
       (callers[i].pc = "got" /\ callers[j].pc = "got") => callers[i].got = callers[j].got

\* one caller arrived first, one while the first initialisation was pending,
\* one after it completed; all three hold an engine
C9_Witness ==
  /\ initRDKitModuleCalls = 1
  /\ \A i \in DOMAIN callers : callers[i].pc = "got"
  /\ \E i, j \in DOMAIN callers :
       /\ i # j
       /\ callers[i].handed.kind = "promise"
       /\ callers[j].handed.kind = "promise"
  /\ \E k \in DOMAIN callers : callers[k].handed.kind = "value"

\* ------------------------------------------------------------------------
\* fragmentMolecule, one loop iteration at a time
\* ------------------------------------------------------------------------

\* try { ... } catch (e) { return null } and the early `return null`s
FragmentMoleculeReturnsNull ==
  /\ pc' = "done"
  /\ outcome' = "resolved"
  /\ result' = NULL

\* fragmentMolecule up to `if (!mol) return null`: there is no molecule, or
\* get_mol throws; nothing was acquired
FragmentMoleculeNoMolecule ==
  /\ pc = "idle"
  /\ \E m \in Molecules, throws \in BOOLEAN :
       /\ m.smiles = <<>> \/ ~m.parses \/ throws
       /\ m.smiles = <<>> => ~throws
       /\ arg' = m
  /\ op' = "fragmentMolecule"
  /\ FragmentMoleculeReturnsNull
  /\ UNCHANGED <<argHsp, method, awaiting, fragments, costas, console, fragVars>>

\* mol is parsed and mol.add_hs() or the second get_mol throws
FragmentMoleculeAddHsThrows ==
  /\ pc = "idle"
  /\ \E m \in Molecules :
       /\ m.smiles # <<>>
       /\ m.parses
       /\ arg' = m
  /\ op' = "fragmentMolecule"
  /\ native' = {"mol"}
  /\ FragmentMoleculeReturnsNull
  /\ UNCHANGED <<argHsp, method, awaiting, fragments, costas, console, consumedAtoms,
                 groupCount, accepted, passedOver, groupIndex, pending, malformed, answers>>

\* fragmentMolecule has mol and molWithH: consumedAtoms and fragments are new
FragmentMoleculeStarts ==
  /\ pc = "idle"
  /\ \E m \in Molecules :
       /\ m.smiles # <<>>
       /\ m.parses
       /\ arg' = m
  /\ \E bad \in Malformations : malformed' = bad
  /\ op' = "fragmentMolecule"
  /\ pc' = "fragmentMolecule:group"
  /\ native' = {"mol", "molWithH"}
  /\ consumedAtoms' = {}
  /\ fragments' = <<>>
  /\ groupIndex' = 0
  /\ groupCount' = 0
  /\ pending' = <<>>
  /\ accepted' = <<>>
  /\ passedOver' = <<>>
  /\ answers' = <<>>
  /\ UNCHANGED <<argHsp, method, awaiting, costas, console, outcome, result>>

\* the pattern of the next group of sortedGroups
NextSmarts == sortedGroups[groupIndex + 1].smarts

\* get_qmol returns null for the next group: `if (!qmol) continue`
GetQmolReturnsNull ==
  /\ pc = "fragmentMolecule:group"
  /\ groupIndex < Len(sortedGroups)
  /\ malformed = [smarts |-> NextSmarts, report |-> "returns null"]
  /\ groupIndex' = groupIndex + 1
  /\ UNCHANGED <<callVars, consumedAtoms, groupCount, accepted, passedOver, pending,
                 native, malformed, answers>>

\* get_qmol throws for the next group: the outer catch returns null
GetQmolThrows ==
  /\ pc = "fragmentMolecule:group"
  /\ groupIndex < Len(sortedGroups)
  /\ malformed = [smarts |-> NextSmarts, report |-> "throws"]
  /\ FragmentMoleculeReturnsNull
  /\ UNCHANGED <<op, arg, argHsp, method, awaiting, fragments, costas, console, fragVars>>

\* the next group of sortedGroups compiles: the matcher answers in some order,
\* or throws and leaves matches = []
GetSubstructMatches ==
  /\ pc = "fragmentMolecule:group"
  /\ groupIndex < Len(sortedGroups)
  /\ malformed.smarts # NextSmarts
  /\ groupIndex' = groupIndex + 1
  /\ native' = native \cup {"qmol"}
  /\ \E order \in Orders(MatchesOf(arg, NextSmarts)) \cup {<<>>} :
       /\ pending' = order
       /\ answers' = (NextSmarts :> order) @@ answers
  /\ groupCount' = 0
  /\ pc' = "fragmentMolecule:match"
  /\ UNCHANGED <<op, arg, argHsp, method, awaiting, fragments, costas, console, outcome,
                 result, consumedAtoms, accepted, passedOver, malformed>>

\* if (!isOverlap) { groupCount++; indices.forEach(idx => consumedAtoms.add(idx)) }
AcceptMatch ==
  /\ pc = "fragmentMolecule:match"
  /\ pending # <<>>
  /\ ~isOverlap(Head(pending), consumedAtoms)
  /\ groupCount' = groupCount + 1
  /\ consumedAtoms' = consumedAtoms \cup Head(pending)
  /\ accepted' = Append(accepted, [smarts |-> sortedGroups[groupIndex].smarts,
                                   atoms |-> Head(pending)])
  /\ pending' = Tail(pending)
  /\ UNCHANGED <<callVars, passedOver, groupIndex, native, malformed, answers>>

\* an overlapping match is passed over
SkipMatch ==
  /\ pc = "fragmentMolecule:match"
  /\ pending # <<>>
  /\ isOverlap(Head(pending), consumedAtoms)
  /\ passedOver' = Append(passedOver, [smarts |-> sortedGroups[groupIndex].smarts,
                                       atoms |-> Head(pending)])
  /\ pending' = Tail(pending)
  /\ UNCHANGED <<callVars, consumedAtoms, groupCount, accepted, groupIndex,
                 native, malformed, answers>>

\* if (groupCount > 0) fragments.push({ group, count: groupCount }); qmol.delete()
EndGroup ==
  /\ pc = "fragmentMolecule:match"
  /\ pending = <<>>
  /\ fragments' = IF groupCount > 0
                  THEN Append(fragments, [group |-> sortedGroups[groupIndex],
                                          count |-> groupCount])
                  ELSE fragments
  /\ native' = native \ {"qmol"}
  /\ pc' = "fragmentMolecule:group"
  /\ UNCHANGED <<op, arg, argHsp, method, awaiting, costas, console, outcome, result,
                 consumedAtoms, groupCount, accepted, passedOver, groupIndex, pending,
                 malformed, answers>>

\* the loop is over: mol.delete(); molWithH.delete(); return fragments, or
\* null when there is none
FragmentMoleculeReturns ==
  /\ pc = "fragmentMolecule:group"
  /\ groupIndex = Len(sortedGroups)
  /\ native' = native \ {"mol", "molWithH"}
  /\ pc' = "done"
  /\ outcome' = "resolved"
  /\ result' = IF fragments = <<>> THEN NULL ELSE [fragments |-> fragments]
  /\ UNCHANGED <<op, arg, argHsp, method, awaiting, fragments, costas, console,
                 consumedAtoms, groupCount, accepted, passedOver, groupIndex, pending,
                 malformed, answers>>

\* the caller has the fragments; the pass's locals are gone
FragmentMoleculeReturned ==
  /\ Return
  /\ consumedAtoms' = {}
  /\ groupCount' = 0
  /\ accepted' = <<>>
  /\ passedOver' = <<>>
  /\ groupIndex' = 0
  /\ pending' = <<>>
  /\ native' = {}
  /\ malformed' = WellFormed
  /\ answers' = <<>>

NextFrag ==
  \/ FragmentMoleculeNoMolecule /\ UNCHANGED <<engineVars, callers, project>>
  \/ FragmentMoleculeAddHsThrows /\ UNCHANGED <<engineVars, callers, project>>
  \/ FragmentMoleculeStarts /\ UNCHANGED <<engineVars, callers, project>>
  \/ GetQmolReturnsNull /\ UNCHANGED <<engineVars, callers, project>>
  \/ GetQmolThrows /\ UNCHANGED <<engineVars, callers, project>>
  \/ GetSubstructMatches /\ UNCHANGED <<engineVars, callers, project>>
  \/ AcceptMatch /\ UNCHANGED <<engineVars, callers, project>>
  \/ SkipMatch /\ UNCHANGED <<engineVars, callers, project>>
  \/ EndGroup /\ UNCHANGED <<engineVars, callers, project>>
  \/ FragmentMoleculeReturns /\ UNCHANGED <<engineVars, callers, project>>
  \/ FragmentMoleculeReturned /\ UNCHANGED <<callers, project>>

SpecFrag == Init /\ [][NextFrag]_vars

\* C2: at every step of a fragmentation pass, whatever the order in which
\* the matcher returned the matches, the atom sets of the matches accepted so
\* far, across all groups, are pairwise disjoint.
C2_AcceptedDisjoint ==
  \A i, j \in 1..Len(accepted) :
    i # j => accepted[i].atoms \cap accepted[j].atoms = {}

\* a finished pass that accepted several matches and passed over a match of
\* a group of which it had accepted another, overlapping, match
C2_Witness ==
  /\ pc = "done"
  /\ op = "fragmentMolecule"
  /\ Len(accepted) >= 3
  /\ \E i \in 1..Len(accepted), k \in 1..Len(passedOver) :
       /\ accepted[i].smarts = passedOver[k].smarts
       /\ accepted[i].atoms \cap passedOver[k].atoms # {}

FragmentMoleculeDone == pc = "done" /\ op = "fragmentMolecule"

\* the fragmentation by the table without the group of pattern smarts, the
\* matcher answering as in r
FragmentationWithout(smarts, r) ==
  GroupLoop(SelectSeq(sortedGroups, LAMBDA g : g.smarts # smarts), r, {}, <<>>)

\* the matcher's answers of this pass, and r's for the patterns the pass
\* never put to the matcher
CompletedBy(r) ==
  [s \in AllSmarts |-> IF s \in DOMAIN answers THEN answers[s] ELSE r[s]]

\* C11: when one group's pattern fails to compile, whether get_qmol returns no
\* matcher or throws, fragmentMolecule returns the fragmentation obtained with
\* that group removed from the table (the matcher answering the other
\* patterns alike).
C11_BadPatternSkipped ==
  (FragmentMoleculeDone /\ malformed # WellFormed) =>
    \E r \in Returns(arg) :
      LET expected == FragmentationWithout(malformed.smarts, CompletedBy(r))
      IN  result = IF expected = <<>> THEN NULL ELSE [fragments |-> expected]

\* C12: when fragmentMolecule completes, on any exit path, every native
\* object it acquired (mol, molWithH, each qmol) has been deleted.
C12_NativeReleased == FragmentMoleculeDone => native = {}

\* ------------------------------------------------------------------------
\* The project: App's projectMolecules and the Comparison handlers
\* ------------------------------------------------------------------------

\* molecules a search can offer to the project; project.found is the one
\* the session's search returned
ProjectCatalog == {Ethanol, SodiumIodide}

\* mol.hsp, NULL when the field is absent
HspOf(mol) == IF "hsp" \in DOMAIN mol THEN mol.hsp ELSE NULL

\* the search result a project molecule came from
CatalogOf(mol) == CHOOSE m \in Molecules : m.id = mol.id

InProject(list, id) == \E i \in 1..Len(list) : list[i].id = id

\* projectMolecules.map(m => m.id === updated.id ? updated : m)
updateMolecule(list, updated) ==
  [i \in 1..Len(list) |-> IF list[i].id = updated.id THEN updated ELSE list[i]]

\* the options of the method <select> in each version of Comparison
MethodOptions ==
  [Comparison |-> {"VanKrevelen", "Costas", "Marcus", "Manual"},
   Newer |-> {"Experimental (Ref)", "VanKrevelen", "Stefanis", "Costas", "Marcus", "Manual"}]

\* mol.hsp || { deltaD: 0, deltaP: 0, deltaH: 0, ... }
hspOr(mol, fallback) == IF HspOf(mol) # NULL THEN HspOf(mol) ELSE fallback

\* Comparison.tsx, newMethod === 'Manual': { ...mol, hsp: { ...currentHSP, method: 'Manual' } }
manualUpdate(mol) ==
  Spread(mol, [hsp |-> Spread(hspOr(mol, ManualPlaceholder), [method |-> "Manual"])])

\* what handleMethodChange passes to onUpdateMolecule once calculate gave hsp
methodChangeUpdate(mol, newMethod, hsp) ==
  IF hsp # NULL
  THEN Spread(mol, [hsp |-> hsp])
  ELSE Spread(mol, [hsp |-> Spread(hspOr(mol, [deltaD |-> 0, deltaP |-> 0, deltaH |-> 0]),
                                   [method |-> newMethod])])

\* App.tsx addToProject: the molecule is stored as found
AddToProjectPlain ==
  /\ project.handler = NULL
  /\ \E m \in {project.found} :
       /\ ~InProject(project.molecules, m.id)
       /\ project' = [project EXCEPT !.molecules = Append(@, m), !.last = NULL]

\* part_006 addToProject up to `await HansenCalculator.processMolecule(molecule)`
AddToProject ==
  /\ project.handler = NULL
  /\ \E m \in {project.found} :
       /\ ~InProject(project.molecules, m.id)
       /\ project' = [project EXCEPT !.handler = [kind |-> "addToProject", mol |-> m],
                                     !.last = NULL]

\* processMolecule resolved: setProjectMolecules(prev => [...prev, enrichedMolecule])
AddToProjectResolves ==
  /\ project.handler # NULL
  /\ project.handler.kind = "addToProject"
  /\ \E first \in FragmentValues(project.handler.mol),
        second \in FragmentValues(project.handler.mol) :
       project' = [project EXCEPT
                     !.molecules =
                        Append(@, processMoleculeAt(project.handler.mol, first, second).result),
                     !.handler = NULL]

\* Comparison.tsx handleMethodChange(mol, 'Manual')
HandleMethodChangeManual ==
  /\ project.handler = NULL
  /\ \E i \in 1..Len(project.molecules) :
       project' = [project EXCEPT
                     !.molecules = updateMolecule(@, manualUpdate(project.molecules[i])),
                     !.hspEditId = [id |-> project.molecules[i].id],
                     !.hspEditValues = manualUpdate(project.molecules[i]).hsp,
                     !.last = [version |-> "Comparison", id |-> project.molecules[i].id,
                               newMethod |-> "Manual",
                               previous |-> HspOf(project.molecules[i]),
                               computed |-> NULL]]

\* handleMethodChange up to `await HansenCalculator.calculate(mol, newMethod)`
HandleMethodChange ==
  /\ project.handler = NULL
  /\ \E i \in 1..Len(project.molecules), version \in DOMAIN MethodOptions :
       \E newMethod \in MethodOptions[version] :
         /\ version = "Comparison" => newMethod # "Manual"
         /\ project' = [project EXCEPT
                          !.handler = [kind |-> "handleMethodChange", version |-> version,
                                       mol |-> project.molecules[i],
                                       newMethod |-> newMethod,
                                       closure |-> project.molecules],
                          !.last = NULL]

\* calculate resolved: onUpdateMolecule receives the new molecule record
MethodChangeResolves ==
  /\ project.handler # NULL
  /\ project.handler.kind = "handleMethodChange"
  /\ \E frags \in FragmentValues(CatalogOf(project.handler.mol)) :
       LET mol == project.handler.mol
           hsp == calculate(mol, HspOf(mol), project.handler.newMethod, frags)
       IN  project' =
             [project EXCEPT
                !.molecules = updateMolecule(project.handler.closure,
                                             methodChangeUpdate(mol, project.handler.newMethod,
                                                                hsp)),
                !.handler = NULL,
                !.last = [version |-> project.handler.version, id |-> mol.id,
                          newMethod |-> project.handler.newMethod,
                          previous |-> HspOf(mol), computed |-> hsp]]

\* openHspEditor(mol): the editor opens on the molecule's hsp (hspEditId is
\* NULL or [id |-> the molecule's id])
OpenHspEditor ==
  /\ project.handler = NULL
  /\ \E i \in 1..Len(project.molecules) :
       project' = [project EXCEPT
                     !.hspEditId = [id |-> project.molecules[i].id],
                     !.hspEditValues = hspOr(project.molecules[i], ManualPlaceholder),
                     !.last = NULL]

\* what is typed into the editor: 17.0 into one of its three inputs
\* (Comparison.tsx:606, 615, 624)
TypedValues == {[deltaD |-> 170], [deltaP |-> 170], [deltaH |-> 170]}

\* onChange of an input: setHspEditValues({...hspEditValues, deltaD: parseFloat(value) || 0})
EditHspValue ==
  /\ project.handler = NULL
  /\ project.hspEditId # NULL
  /\ \E typed \in TypedValues :
       project' = [project EXCEPT !.hspEditValues = Spread(@, typed), !.last = NULL]

\* saveHspManual: { ...mol, hsp: { ...hspEditValues, method: 'Manual' } }
SaveHspManual ==
  /\ project.handler = NULL
  /\ project.hspEditId # NULL
  /\ project' =
       [project EXCEPT
          !.molecules =
             IF InProject(@, project.hspEditId.id)
             THEN updateMolecule(@,
                    Spread(@[CHOOSE i \in 1..Len(@) : @[i].id = project.hspEditId.id],
                           [hsp |-> Spread(project.hspEditValues, [method |-> "Manual"])]))
             ELSE @,
          !.hspEditId = NULL,
          !.last = NULL]

\* the engine is present; the project is empty and nothing is in flight
InitProject ==
  /\ hasInitRDKitModule = TRUE
  /\ RDKitModule = NULL
  /\ rdkitModulePromise = NULL
  /\ initRDKitModuleCalls = 0
  /\ tables = PristineTables
  /\ processed = {}
  /\ Idle
  /\ NoCallers
  /\ NoFragmentation
  /\ \E m \in ProjectCatalog :
       project = [found |-> m, molecules |-> <<>>, handler |-> NULL, last |-> NULL,
                  hspEditId |-> NULL, hspEditValues |-> ManualPlaceholder]

NextProject ==
  \/ AddToProjectPlain /\ UNCHANGED <<engineVars, callVars, callers, fragVars>>
  \/ AddToProject /\ UNCHANGED <<engineVars, callVars, callers, fragVars>>
  \/ AddToProjectResolves /\ UNCHANGED <<engineVars, callVars, callers, fragVars>>
  \/ HandleMethodChangeManual /\ UNCHANGED <<engineVars, callVars, callers, fragVars>>
  \/ HandleMethodChange /\ UNCHANGED <<engineVars, callVars, callers, fragVars>>
  \/ MethodChangeResolves /\ UNCHANGED <<engineVars, callVars, callers, fragVars>>
  \/ OpenHspEditor /\ UNCHANGED <<engineVars, callVars, callers, fragVars>>
  \/ EditHspValue /\ UNCHANGED <<engineVars, callVars, callers, fragVars>>
  \/ SaveHspManual /\ UNCHANGED <<engineVars, callVars, callers, fragVars>>

SpecProject == InitProject /\ [][NextProject]_vars

\* the hsp stored in the project for the molecule of the last method change
StoredAfterChange ==
  HspOf(project.molecules[CHOOSE i \in 1..Len(project.molecules) :
                            project.molecules[i].id = project.last.id])

MethodChanged == project.last # NULL /\ InProject(project.molecules, project.last.id)

\* C6: after a method change to a method other than 'Manual' the stored hsp
\* is exactly the requested method's output; it never holds the previous
\* method's deltaD, deltaP, deltaH under the new tag, also when the
\* requested method is unavailable for the molecule.
C6_StoredIsRequestedOutput ==
  (MethodChanged /\ project.last.newMethod # "Manual") =>
    IF project.last.computed # NULL
    THEN StoredAfterChange = project.last.computed
    ELSE ~( /\ project.last.previous # NULL
            /\ project.last.previous.method # project.last.newMethod
            /\ StoredAfterChange.method = project.last.newMethod
            /\ StoredAfterChange.deltaD = project.last.previous.deltaD
            /\ StoredAfterChange.deltaP = project.last.previous.deltaP
            /\ StoredAfterChange.deltaH = project.last.previous.deltaH )

\* C8: switching a molecule to 'Manual' stores a record with the molecule's
\* existing deltaD, deltaP, deltaH (zeros if it had none) and the method tag
\* 'Manual', whatever the previous tag was.
C8_ManualKeepsValues ==
  (MethodChanged /\ project.last.newMethod = "Manual") =>
    LET previous == IF project.last.previous # NULL THEN project.last.previous
                    ELSE [deltaD |-> 0, deltaP |-> 0, deltaH |-> 0]
    IN  /\ StoredAfterChange.deltaD = previous.deltaD
        /\ StoredAfterChange.deltaP = previous.deltaP
        /\ StoredAfterChange.deltaH = previous.deltaH
        /\ StoredAfterChange.method = "Manual"

\* the records stored on the project molecules
StoredHsps ==
  {HspOf(project.molecules[i]) : i \in 1..Len(project.molecules)} \ {NULL}

\* C17: in every HSP record stored on a project molecule, deltaT and deltaV,
\* when present, equal sqrt(deltaD^2 + deltaP^2 + deltaH^2) and
\* sqrt(deltaD^2 + deltaP^2) of that record's deltaD, deltaP, deltaH, up to
\* one step of the one-decimal rounding.
C17_DerivedNeverStale ==
  \A hsp \in StoredHsps :
    /\ "deltaT" \in DOMAIN hsp =>
         Abs(hsp.deltaT - DerivedOfTenths(hsp.deltaD, hsp.deltaP, hsp.deltaH, 0).deltaT) <= 1
    /\ "deltaV" \in DOMAIN hsp =>
         Abs(hsp.deltaV - DerivedOfTenths(hsp.deltaD, hsp.deltaP, hsp.deltaH, 0).deltaV) <= 1

\* the methods that compute a result: group contribution (VanKrevelen),
\* energy based (Stefanis), equation of state (Costas), ionic (Marcus)
PredictiveMethods == {"VanKrevelen", "Stefanis", "Costas", "Marcus"}

\* calculate resolved with a result computed by the requested method
MethodResult ==
  /\ CalculateDone
  /\ method \in PredictiveMethods
  /\ result # NULL
  /\ arg.molecularWeight > 0

\* C18: every result a method computes for a molecule with molecularWeight > 0
\* has deltaD >= 0, deltaP >= 0 and deltaH >= 0.
C18_NonNegative ==
  MethodResult =>
    /\ result.deltaD >= 0
    /\ result.deltaP >= 0
    /\ result.deltaH >= 0

\* the summed vkh group volume of the fragments calculate worked on
SummedVolume ==
  Sum([i \in 1..Len(fragments) |-> fragments[i].group.vkh.V * fragments[i].count])

C20_CostasReducesToBase ==
  (MethodResult /\ method = "Costas" /\ fragments # NoFragments) =>
    LET base == calculateVanKrevelen(fragments, arg.molecularWeight)
    IN  /\ result.deltaD = base.deltaD
        /\ result.deltaP = base.deltaP
        /\ result.deltaH = base.deltaH
        /\ result.deltaT = base.deltaT
        /\ result.deltaV = base.deltaV
        /\ result.molarVolume = base.molarVolume

\* processMolecule resolved for a molecule with no reference entry whose
\* smiles has a '.' and whose fragmentation found nothing
IonicUnfragmented ==
  /\ ProcessMoleculeDone
  /\ ~HasReference
  /\ includes(arg.smiles, ".")
  /\ fragments = NoFragments

\* C21: with no reference entry, a molecule whose smiles contains '.' and on
\* which fragmentation does not succeed gets the Marcus result from
\* processMolecule: tag 'Marcus', deltaP > 0 and deltaH > 0, computed from
\* min(molecularWeight / 200, 1.5).
C21_IonicGetsMarcus ==
  IonicUnfragmented =>
    /\ result.hsp.method = "Marcus"
    /\ result.hsp.deltaP > 0
    /\ result.hsp.deltaH > 0
    /\ result.hsp = calculateMarcus(arg)
    /\ result.hsp.deltaP = RoundDiv(500000, Min(arg.molecularWeight, 3000))

\* sodium iodide (no group matches) has been processed
C21_Witness ==
  /\ IonicUnfragmented
  /\ arg.parses
  /\ RDKitModule # NULL
  /\ result.hsp.deltaP > 0

\* C22: in the functional group table every coefficient other than the
\* volume V (Fd, Fp, Eh of vkh and Ed, Ep, Eh of sp) is >= 0 for every group:
\* stated on the table entries fragmentMolecule's loop has visited.
C22_CoefficientsNonNegative ==
  \A i \in 1..groupIndex :
    LET g == sortedGroups[i]
    IN  /\ g.vkh.Fd >= 0 /\ g.vkh.Fp >= 0 /\ g.vkh.Eh >= 0
        /\ g.sp.Ed >= 0 /\ g.sp.Ep >= 0 /\ g.sp.Eh >= 0

\* fragmentMolecule is about to examine a match
ExaminesMatch == pc = "fragmentMolecule:match" /\ pending # <<>>

\* C23: a match is accepted if and only if none of its atom indices is in the
\* consumed set; accepting adds one to the group's count and all of the
\* match's atoms to the consumed set; rejecting leaves the consumed set and
\* every group's count unchanged.
C23_AcceptOrReject ==
  [][ExaminesMatch =>
       /\ fragments' = fragments
       /\ IF Head(pending) \cap consumedAtoms = {}
          THEN /\ groupCount' = groupCount + 1
               /\ consumedAtoms' = consumedAtoms \cup Head(pending)
          ELSE /\ groupCount' = groupCount
               /\ consumedAtoms' = consumedAtoms]_vars

\* within one group, a match has been accepted and a later one, sharing some
\* but not all of its atoms with the consumed set, has been rejected
C23_Witness ==
  /\ pc = "fragmentMolecule:match"
  /\ groupCount >= 1
  /\ \E k \in 1..Len(passedOver) :
       /\ passedOver[k].smarts = sortedGroups[groupIndex].smarts
       /\ passedOver[k].atoms \cap consumedAtoms # {}
       /\ ~(passedOver[k].atoms \subseteq consumedAtoms)

\* position in the table and priority of each pattern
TableIndex ==
  [s \in AllSmarts |->
     CHOOSE i \in 1..Len(FUNCTIONAL_GROUPS) : FUNCTIONAL_GROUPS[i].smarts = s]

PriorityOf == [s \in AllSmarts |-> FUNCTIONAL_GROUPS[TableIndex[s]].priority]

\* g is to be evaluated before h: higher priority, or equal priority and
\* listed first in the table
EvaluatedBefore ==
  [g \in AllSmarts, h \in AllSmarts |->
     \/ PriorityOf[g] > PriorityOf[h]
     \/ PriorityOf[g] = PriorityOf[h] /\ TableIndex[g] < TableIndex[h]]

\* the patterns the loop has reached
Visited == {sortedGroups[i].smarts : i \in 1..groupIndex}

\* C24: groups are evaluated in non-increasing priority order and groups of
\* equal priority in table order: when a group has claimed atoms, every group
\* of higher priority and every group of equal priority listed before it has
\* been evaluated, and the group being evaluated comes after those reached
\* before it; so, of two
\* equal-priority patterns contesting an atom, the one listed first claims it.
C24_PriorityThenTableOrder ==
  /\ \A i \in 1..Len(accepted) : \A h \in AllSmarts :
       EvaluatedBefore[h, accepted[i].smarts] => h \in Visited
  /\ \A i \in 1..(groupIndex - 1) :
       EvaluatedBefore[sortedGroups[i].smarts, sortedGroups[groupIndex].smarts]
  /\ \A i \in 1..Len(accepted), k \in 1..Len(passedOver) :
       ( /\ accepted[i].smarts # passedOver[k].smarts
         /\ PriorityOf[accepted[i].smarts] = PriorityOf[passedOver[k].smarts]
         /\ accepted[i].atoms \cap passedOver[k].atoms # {}
         /\ \A n \in 1..Len(accepted) :
              accepted[n].atoms \cap passedOver[k].atoms # {}
                => accepted[n].smarts = accepted[i].smarts )
       => TableIndex[accepted[i].smarts] < TableIndex[passedOver[k].smarts]

\* an atom contested by two patterns of equal priority (ketone and aldehyde
\* in methylglyoxal): the first listed has claimed it, the other was rejected
C24_Witness ==
  /\ FragmentMoleculeDone
  /\ \E i \in 1..Len(accepted), k \in 1..Len(passedOver) :
       /\ accepted[i].smarts # passedOver[k].smarts
       /\ PriorityOf[accepted[i].smarts] = PriorityOf[passedOver[k].smarts]
       /\ accepted[i].atoms \cap passedOver[k].atoms # {}
       /\ TableIndex[accepted[i].smarts] < TableIndex[passedOver[k].smarts]

\* the pass is over and the matcher answered every pattern in full
AnsweredInFull ==
  /\ FragmentMoleculeDone
  /\ malformed = WellFormed
  /\ \A s \in AllSmarts :
       /\ s \in DOMAIN answers
       /\ Len(answers[s]) = Cardinality(MatchesOf(arg, s))

\* C25: for a fixed molecule the fragments fragmentMolecule returns are the
\* same for every order in which the matcher may return the matches of a
\* pattern.
C25_OrderIndependent ==
  AnsweredInFull =>
    \A r \in Returns(arg) :
      LET other == GroupLoop(sortedGroups, r, {}, <<>>)
      IN  result = IF other = <<>> THEN NULL ELSE [fragments |-> other]

\* C29: greedy fragmentation is maximal: when fragmentMolecule finishes, every
\* non-empty match the matcher returned for a compiled group shares at least
\* one atom with the final consumed set.
C29_GreedyIsMaximal ==
  FragmentMoleculeDone =>
    \A s \in DOMAIN answers : \A n \in 1..Len(answers[s]) :
      answers[s][n] # {} => answers[s][n] \cap consumedAtoms # {}

\* a finished pass over a molecule in which some returned matches were
\* accepted and at least two were rejected
C29_Witness ==
  /\ FragmentMoleculeDone
  /\ malformed = WellFormed
  /\ result # NULL
  /\ Len(passedOver) >= 2
  /\ \E s \in DOMAIN answers : Len(answers[s]) >= 2

\* the promise returned by window.initRDKitModule has rejected
InitFailed == rdkitModulePromise = [state |-> "rejected"]

\* a call is at an `await this.init()` inside fragmentMolecule
AwaitsInit == pc \in {"processMolecule:fragment", "processMolecule:costas", "calculate:fragment"}

\* C28: once the promise returned by window.initRDKitModule has rejected, no
\* init call starts a new attempt; every init call is handed that rejected
\* promise and fails with it; and every fragmentation reports no fragments
\* instead of throwing, so no engine call rejects.
C28_FailedInitIsFinal ==
  /\ [][InitFailed =>
         /\ rdkitModulePromise' = rdkitModulePromise
         /\ initRDKitModuleCalls' = initRDKitModuleCalls
         /\ RDKitModule' = NULL]_vars
  /\ []((InitFailed /\ AwaitsInit) =>
         /\ awaiting = [kind |-> "promise"]
         /\ Settled(awaiting)
         /\ Awaited(awaiting) = NULL)
  /\ [](InitFailed =>
         /\ fragments = NoFragments
         /\ outcome # "rejected"
         /\ ProcessMoleculeDone =>
              costas = [deltaD |-> 0, deltaP |-> 0, deltaH |-> 0, method |-> "Costas"])

\* processMolecule on a molecule with matching groups has resolved after the
\* initialisation failed: its second fragmentation (inside calculateCostas)
\* called init after the rejection and reported no fragments
C28_Witness ==
  /\ ProcessMoleculeDone
  /\ InitFailed
  /\ initRDKitModuleCalls = 1
  /\ arg.parses
  /\ arg.matches # <<>>
  /\ fragments = NoFragments
  /\ costas.method = "Costas"
  /\ costas.deltaD = 0

\* ------------------------------------------------------------------------
\* The project with handlers overlapping in time.  Each async handler runs up
\* to its await in the render it was started from and resumes later with what
\* it captured there: handleMethodChange holds that render's onUpdateMolecule,
\* i.e. updateMolecule closed over that render's projectMolecules (closure).
\* project here is [molecules, inflight, removed, changed]: removed and
\* changed are history, the ids removed and not added since, and per id the
\* hsp the last completed method change stored.
\* ------------------------------------------------------------------------

\* how many handlers may be awaiting at once
MaxInFlight == 2

\* handlers start while the project holds at most this many molecules
MaxProject == 2

\* the search results the user adds
OverlapCatalog == {Ethanol, Methanol}

\* the method the user picks while another handler is in flight
OverlapMethods == {"Marcus"}

\* projectMolecules.filter(m => m.id !== id)
removeFromProject(list, id) == SelectSeq(list, LAMBDA m : m.id # id)

\* part_006 addToProject up to `await HansenCalculator.processMolecule(molecule)`
AddToProjectStarts ==
  /\ Len(project.inflight) < MaxInFlight
  /\ Len(project.molecules) < MaxProject
  /\ \E m \in OverlapCatalog :
       /\ ~InProject(project.molecules, m.id)
       /\ project' = [project EXCEPT
                        !.inflight = Append(@, [kind |-> "addToProject", mol |-> m])]

\* processMolecule resolved: setProjectMolecules(prev => [...prev, enrichedMolecule])
AddToProjectSettles ==
  \E k \in 1..Len(project.inflight) :
    LET h == project.inflight[k]
    IN  /\ h.kind = "addToProject"
        /\ \E first \in FragmentValues(h.mol), second \in FragmentValues(h.mol) :
             project' = [project EXCEPT
                           !.molecules = Append(@, processMoleculeAt(h.mol, first, second).result),
                           !.inflight = SubSeq(@, 1, k - 1) \o SubSeq(@, k + 1, Len(@)),
                           !.removed = @ \ {h.mol.id}]

\* handleMethodChange up to `await HansenCalculator.calculate(mol, newMethod)`
HandleMethodChangeStarts ==
  /\ Len(project.inflight) < MaxInFlight
  /\ Len(project.molecules) <= MaxProject
  /\ \E i \in 1..Len(project.molecules), newMethod \in OverlapMethods :
       project' = [project EXCEPT
                     !.inflight = Append(@, [kind |-> "handleMethodChange",
                                             mol |-> project.molecules[i],
                                             newMethod |-> newMethod,
                                             closure |-> project.molecules])]

\* calculate resolved: the captured onUpdateMolecule stores
\* closure.map(m => m.id === updated.id ? updated : m)
HandleMethodChangeSettles ==
  \E k \in 1..Len(project.inflight) :
    LET h == project.inflight[k]
    IN  /\ h.kind = "handleMethodChange"
        /\ \E frags \in FragmentValues(CatalogOf(h.mol)) :
             LET updated == methodChangeUpdate(h.mol, h.newMethod,
                              calculate(h.mol, HspOf(h.mol), h.newMethod, frags))
             IN  project' = [project EXCEPT
                               !.molecules = updateMolecule(h.closure, updated),
                               !.inflight = SubSeq(@, 1, k - 1) \o SubSeq(@, k + 1, Len(@)),
                               !.changed = (h.mol.id :> updated.hsp) @@ @]

\* the remove button of the current render
RemoveFromProject ==
  \E i \in 1..Len(project.molecules) :
    LET id == project.molecules[i].id
    IN  project' = [project EXCEPT
                      !.molecules = removeFromProject(@, id),
                      !.removed = @ \cup {id},
                      !.changed = [x \in DOMAIN @ \ {id} |-> @[x]]]

InitOverlap ==
  /\ hasInitRDKitModule = TRUE
  /\ RDKitModule = NULL
  /\ rdkitModulePromise = NULL
  /\ initRDKitModuleCalls = 0
  /\ tables = PristineTables
  /\ processed = {}
  /\ Idle
  /\ NoCallers
  /\ NoFragmentation
  /\ project = [molecules |-> <<>>, inflight |-> <<>>, removed |-> {}, changed |-> <<>>]

NextOverlap ==
  \/ AddToProjectStarts /\ UNCHANGED <<engineVars, callVars, callers, fragVars>>
  \/ AddToProjectSettles /\ UNCHANGED <<engineVars, callVars, callers, fragVars>>
  \/ HandleMethodChangeStarts /\ UNCHANGED <<engineVars, callVars, callers, fragVars>>
  \/ HandleMethodChangeSettles /\ UNCHANGED <<engineVars, callVars, callers, fragVars>>
  \/ RemoveFromProject /\ UNCHANGED <<engineVars, callVars, callers, fragVars>>

SpecOverlap == InitOverlap /\ [][NextOverlap]_vars

\* the hsp the project holds for id
StoredHspOf(id) ==
  HspOf(project.molecules[CHOOSE i \in 1..Len(project.molecules) :
                            project.molecules[i].id = id])

C27_UniqueIds ==
  \A i, j \in 1..Len(project.molecules) :
    i # j => project.molecules[i].id # project.molecules[j].id

\* ------------------------------------------------------------------------
\* Utilities on their own: calculateDistance and getReferenceData
\* ------------------------------------------------------------------------

\* the argument pairs put to calculateDistance.  per is the number of units
\* per tenth in which a pair's triples are held: 1 for the one-decimal values
\* the methods return, 100 (thousandths) for values typed into the manual
\* editor, which stores parseFloat of whatever was typed.  No pair lies at a
\* distance whose third decimal is exactly 5, where toFixed(2) depends on the
\* binary representation of the operands.
DistanceInputs ==
  LET OneDecimal == {[deltaD |-> d, deltaP |-> p, deltaH |-> h] :
                       d \in {148, 155, 158}, p \in {0, 88, 91}, h \in {70, 194}}
      Typed      == {[deltaD |-> d, deltaP |-> p, deltaH |-> h] :
                       d \in {15800, 15802, 15803, 16800}, p \in {8800, 8801}, h \in {19400, 19402}}
  IN  {[per |-> 1, mol1 |-> a, mol2 |-> b] : a \in OneDecimal, b \in OneDecimal}
      \cup {[per |-> 100, mol1 |-> a, mol2 |-> b] : a \in Typed, b \in Typed}

CallCalculateDistance ==
  /\ pc = "idle"
  /\ \E in \in DistanceInputs :
       /\ arg' = in
       /\ result' = calculateDistanceAt(in.per, in.mol1, in.mol2)
  /\ op' = "calculateDistance"
  /\ outcome' = "resolved"
  /\ pc' = "done"
  /\ UNCHANGED <<argHsp, method, awaiting, fragments, costas, console>>

\* the spellings of the keys and aliases of the reference table: the letter
\* case changed (as is, upper case, capitalised) and whitespace put around
Spellings ==
  LET upper(c) == IF \E i \in 1..Len(LowerCase) : LowerCase[i] = c
                  THEN UpperCase[CHOOSE i \in 1..Len(LowerCase) : LowerCase[i] = c]
                  ELSE c
      cased(base, case) ==
        IF case = "UPPER" THEN [i \in 1..Len(base) |-> upper(base[i])]
        ELSE IF case = "Capitalised" THEN <<upper(Head(base))>> \o Tail(base)
        ELSE base
      Bases == {REFERENCE_SOLVENTS[i].key : i \in 1..Len(REFERENCE_SOLVENTS)}
                 \cup {aliasMap[j].alias : j \in 1..Len(aliasMap)}
  IN  {[base |-> base, name |-> before \o cased(base, case) \o after] :
         base \in Bases, case \in {"lower", "UPPER", "Capitalised"},
         before \in {<<>>, <<" ">>}, after \in {<<>>, <<"\t", "\n">>}}

\* names that are neither a key nor an alias of the reference table
OtherNames ==
  {<<>>,
   <<"x", "y", "l", "e", "n", "e">>,
   <<"a", "c", "e", "t", "o", "n", "e", "s">>,
   <<"e", "t", "h", " ", "a", "n", "o", "l">>,
   <<"C", "o", "n", "s", "t", "r", "u", "c", "t", "o", "r">>,
   <<"_", "_", "p", "r", "o", "t", "o", "_", "_">>}

CallGetReferenceData ==
  /\ pc = "idle"
  /\ \E n \in {sp.name : sp \in Spellings} \cup OtherNames :
       /\ arg' = [moleculeName |-> n]
       /\ result' = getReferenceData(n)
  /\ op' = "getReferenceData"
  /\ outcome' = "resolved"
  /\ pc' = "done"
  /\ UNCHANGED <<argHsp, method, awaiting, fragments, costas, console>>

NextUtil ==
  \/ CallCalculateDistance /\ UNCHANGED <<engineVars, callers, fragVars, project>>
  \/ CallGetReferenceData /\ UNCHANGED <<engineVars, callers, fragVars, project>>
  \/ Return /\ UNCHANGED <<callers, fragVars, project>>

SpecUtil == Init /\ [][NextUtil]_vars

DistanceDone == pc = "done" /\ op = "calculateDistance"

\* 4 dD^2 + dP^2 + dH^2 of the two records, in squared units of the resolution
WeightedSquares ==
  4 * (arg.mol1.deltaD - arg.mol2.deltaD) * (arg.mol1.deltaD - arg.mol2.deltaD)
    + (arg.mol1.deltaP - arg.mol2.deltaP) * (arg.mol1.deltaP - arg.mol2.deltaP)
    + (arg.mol1.deltaH - arg.mol2.deltaH) * (arg.mol1.deltaH - arg.mol2.deltaH)

SameComponents ==
  /\ arg.mol1.deltaD = arg.mol2.deltaD
  /\ arg.mol1.deltaP = arg.mol2.deltaP
  /\ arg.mol1.deltaH = arg.mol2.deltaH

\* C13: calculateDistance(a, b) = calculateDistance(b, a), and
\* calculateDistance(a, a) = 0.
C13_SymmetricReflexive ==
  DistanceDone =>
    /\ result = calculateDistanceAt(arg.per, arg.mol2, arg.mol1)
    /\ arg.mol1 = arg.mol2 => result = 0

\* two records that differ in all three components, at a distance above zero
C13_Witness ==
  /\ DistanceDone
  /\ arg.mol1.deltaD < arg.mol2.deltaD
  /\ arg.mol1.deltaP > arg.mol2.deltaP
  /\ arg.mol1.deltaH # arg.mol2.deltaH
  /\ result > 0

\* C14 as stated: calculateDistance(a, b) is 0 if and only if a and b have
\* equal deltaD, equal deltaP and equal deltaH.
C14_ZeroIffEqual == DistanceDone => (result = 0 <=> SameComponents)

\* C14: calculateDistance(a, b), a value rounded to two decimals, is 0 if and
\* only if sqrt(4 dD^2 + dP^2 + dH^2) is below 0.005; for records with
\* one-decimal components that is if and only if the components are equal.
C14_ZeroIffWithinRounding ==
  DistanceDone =>
    /\ result = 0 <=> 400 * WeightedSquares < arg.per * arg.per
    /\ arg.per = 1 => (result = 0 <=> SameComponents)

\* typed records 0.002 apart in deltaD are at distance 0.00
C14_Witness ==
  /\ DistanceDone
  /\ arg.per = 100
  /\ Abs(arg.mol1.deltaD - arg.mol2.deltaD) = 2
  /\ result = 0

OnlyDeltaDDiffers ==
  arg.mol1.deltaP = arg.mol2.deltaP /\ arg.mol1.deltaH = arg.mol2.deltaH

OnlyDeltaPDiffers ==
  arg.mol1.deltaD = arg.mol2.deltaD /\ arg.mol1.deltaH = arg.mol2.deltaH

OnlyDeltaHDiffers ==
  arg.mol1.deltaD = arg.mol2.deltaD /\ arg.mol1.deltaP = arg.mol2.deltaP

\* C15 as stated: with identical deltaP and deltaH the distance is exactly
\* twice the absolute deltaD difference; a difference of k in deltaP alone or
\* in deltaH alone gives k.  (result is in hundredths, the components in
\* 1/(10 per).)
C15_TwiceDeltaD ==
  DistanceDone =>
    /\ OnlyDeltaDDiffers => result * arg.per = 20 * Abs(arg.mol1.deltaD - arg.mol2.deltaD)
    /\ OnlyDeltaPDiffers => result * arg.per = 10 * Abs(arg.mol1.deltaP - arg.mol2.deltaP)
    /\ OnlyDeltaHDiffers => result * arg.per = 10 * Abs(arg.mol1.deltaH - arg.mol2.deltaH)

\* C15: with identical deltaP and deltaH the distance is twice the absolute
\* deltaD difference rounded to two decimals, which for one-decimal records
\* is exactly twice the difference; a difference of k in deltaP alone or in
\* deltaH alone gives k rounded to two decimals.
C15_TwiceDeltaDRounded ==
  DistanceDone =>
    /\ OnlyDeltaDDiffers =>
         result = RoundDiv(20 * Abs(arg.mol1.deltaD - arg.mol2.deltaD), arg.per)
    /\ OnlyDeltaPDiffers =>
         result = RoundDiv(10 * Abs(arg.mol1.deltaP - arg.mol2.deltaP), arg.per)
    /\ OnlyDeltaHDiffers =>
         result = RoundDiv(10 * Abs(arg.mol1.deltaH - arg.mol2.deltaH), arg.per)
    /\ (arg.per = 1 /\ OnlyDeltaDDiffers) =>
         result = 20 * Abs(arg.mol1.deltaD - arg.mol2.deltaD)

\* one-decimal records 1.0 apart in deltaD alone are at distance 2.00
C15_Witness ==
  /\ DistanceDone
  /\ arg.per = 1
  /\ OnlyDeltaDDiffers
  /\ Abs(arg.mol1.deltaD - arg.mol2.deltaD) = 10
  /\ result = 200

LookupDone == pc = "done" /\ op = "getReferenceData"

IsVariantOf(name, base) == [base |-> base, name |-> name] \in Spellings

\* C16: a canonical key or an alias of it, in any letter case and with any
\* surrounding whitespace, looks up the key's entry; a name that is neither
\* a key nor an alias looks up null.
C16_LookupInsensitive ==
  LookupDone =>
    /\ \A i \in 1..Len(REFERENCE_SOLVENTS) :
         IsVariantOf(arg.moleculeName, REFERENCE_SOLVENTS[i].key) =>
           result = REFERENCE_SOLVENTS[i]
    /\ \A j \in 1..Len(aliasMap) :
         IsVariantOf(arg.moleculeName, aliasMap[j].alias) =>
           \E i \in 1..Len(REFERENCE_SOLVENTS) :
             /\ REFERENCE_SOLVENTS[i].key = aliasMap[j].key
             /\ result = REFERENCE_SOLVENTS[i]
    /\ ( /\ \A i \in 1..Len(REFERENCE_SOLVENTS) :
              ~IsVariantOf(arg.moleculeName, REFERENCE_SOLVENTS[i].key)
         /\ \A j \in 1..Len(aliasMap) :
              ~IsVariantOf(arg.moleculeName, aliasMap[j].alias) ) =>
         result = NULL

\* ------------------------------------------------------------------------
\* The tables across operations: calls one after another on shared tables
\* ------------------------------------------------------------------------

\* the molecules handed to the engine here: with and without a reference
\* entry, with one and with several ways for the matcher to answer
TableMolecules == {Ethanol, Propanol, Methylglyoxal, SodiumIodide}

\* fragmentMolecule with the module loaded and a well-behaved adapter, on
\* the tables as they stand: the value it returns and the tables it leaves
fragmentMoleculeOn(t, molecule, returned) ==
  IF molecule.smiles = <<>> \/ ~molecule.parses
  THEN [tables |-> t, value |-> NoFragments]
  ELSE LET s == sortCopy(t.FUNCTIONAL_GROUPS)
       IN  [tables |-> [t EXCEPT !.FUNCTIONAL_GROUPS = s.table],
            value  |-> GroupLoop(s.sorted, returned, {}, <<>>)]

\* processMolecule(molecule): the lookup, the two fragmentations (its own and
\* calculateCostas's) and the selection; completeRef is a new object spread
\* from the entry, so the entry is read and never assigned
RunProcessMolecule ==
  /\ pc = "idle"
  /\ \E m \in TableMolecules : \E first \in Returns(m), second \in Returns(m) :
       LET e == getReferenceDataIn(tables.REFERENCE_SOLVENTS, PreferredName(m))
           refData == IF e = NULL THEN NULL
                      ELSE [deltaD |-> e.deltaD, deltaP |-> e.deltaP, deltaH |-> e.deltaH,
                            method |-> e.method]
           f1 == fragmentMoleculeOn(tables, m, first)
           f2 == fragmentMoleculeOn(f1.tables, m, second)
           costasHSP == calculateCostas(f2.value, m, RoomTemp)
       IN  /\ arg' = m
           /\ fragments' = f1.value
           /\ costas' = costasHSP
           /\ answers' = first
           /\ result' = IF refData # NULL
                        THEN Spread(m, [hsp |-> completeRef(refData, m)])
                        ELSE Spread(m, [hsp |-> selectHSP(m, vkhOf(m, f1.value),
                                                          spOf(m, f1.value), costasHSP,
                                                          marcusOf(m))])
           /\ tables' = f2.tables
           /\ processed' = processed \cup {m.id}
  /\ op' = "processMolecule"
  /\ outcome' = "resolved"
  /\ pc' = "done"
  /\ UNCHANGED <<hasInitRDKitModule, RDKitModule, rdkitModulePromise, initRDKitModuleCalls,
                 argHsp, method, awaiting, console>>

\* calculate(molecule, method): the lookup for 'Experimental (Ref)', and the
\* fragmentation every other method but 'Manual' and 'Marcus' reaches
RunCalculate ==
  /\ pc = "idle"
  /\ \E m \in TableMolecules, t \in Methods : \E returned \in Returns(m) :
       LET e == getReferenceDataIn(tables.REFERENCE_SOLVENTS, PreferredName(m))
           refData == IF e = NULL THEN NULL
                      ELSE [deltaD |-> e.deltaD, deltaP |-> e.deltaP, deltaH |-> e.deltaH,
                            method |-> e.method]
           eff == IF t = "Experimental (Ref)" /\ refData = NULL THEN "Auto" ELSE t
           atOnce == \/ t = "Manual"
                     \/ t = "Experimental (Ref)" /\ refData # NULL
                     \/ eff = "Marcus"
           f == IF atOnce THEN [tables |-> tables, value |-> NoFragments]
                ELSE fragmentMoleculeOn(tables, m, returned)
       IN  /\ arg' = m
           /\ method' = t
           /\ fragments' = f.value
           /\ answers' = returned
           /\ result' = IF t = "Manual" THEN ManualPlaceholder
                        ELSE IF t = "Experimental (Ref)" /\ refData # NULL
                             THEN completeRef(refData, m)
                        ELSE IF eff = "Marcus" THEN calculateMarcus(m)
                        ELSE IF eff = "Costas" THEN calculateCostas(f.value, m, RoomTemp)
                        ELSE IF f.value = NoFragments THEN NULL
                        ELSE IF eff = "Stefanis"
                             THEN calculateStefanis(f.value, m.molecularWeight)
                        ELSE calculateVanKrevelen(f.value, m.molecularWeight)
           /\ tables' = f.tables
           /\ processed' = processed \cup {m.id}
  /\ op' = "calculate"
  /\ outcome' = "resolved"
  /\ pc' = "done"
  /\ UNCHANGED <<hasInitRDKitModule, RDKitModule, rdkitModulePromise, initRDKitModuleCalls,
                 argHsp, awaiting, costas, console>>

\* getReferenceData(name) on the reference table as it stands
RunGetReferenceData ==
  /\ pc = "idle"
  /\ \E m \in TableMolecules :
       /\ arg' = [moleculeName |-> PreferredName(m)]
       /\ result' = getReferenceDataIn(tables.REFERENCE_SOLVENTS, PreferredName(m))
  /\ op' = "getReferenceData"
  /\ outcome' = "resolved"
  /\ pc' = "done"
  /\ UNCHANGED <<engineVars, argHsp, method, awaiting, fragments, costas, console, answers>>

NextTables ==
  \/ /\ RunProcessMolecule
     /\ UNCHANGED <<callers, consumedAtoms, groupCount, accepted, passedOver, groupIndex,
                 pending, native, malformed, project>>
  \/ /\ RunCalculate
     /\ UNCHANGED <<callers, consumedAtoms, groupCount, accepted, passedOver, groupIndex,
                 pending, native, malformed, project>>
  \/ /\ RunGetReferenceData
     /\ UNCHANGED <<callers, consumedAtoms, groupCount, accepted, passedOver, groupIndex,
                 pending, native, malformed, project>>
  \/ CallCalculateDistance /\ UNCHANGED <<engineVars, callers, fragVars, project>>
  \/ Return /\ UNCHANGED <<callers, fragVars, project>>

SpecTables == Init /\ [][NextTables]_vars

\* the fragments the call's first fragmentation yields on the tables as declared
FragmentsAsDeclared ==
  IF arg.smiles = <<>> \/ ~arg.parses THEN NoFragments
  ELSE GroupLoop(sortedGroups, answers, {}, <<>>)

\* C30: no engine operation (processMolecule, calculate and the fragmentation
\* they reach, getReferenceData, calculateDistance) changes the contents or
\* the order of the functional group table or the contents of the reference
\* table; so whatever was processed before, a call's result is the one the
\* tables as declared give for its molecule.
C30_TablesUnchanged ==
  /\ tables = PristineTables
  /\ ProcessMoleculeDone =>
       /\ fragments = FragmentsAsDeclared
       /\ costas \in {calculateCostas(GroupLoop(sortedGroups, r, {}, <<>>), arg, RoomTemp) :
                        r \in Returns(arg)}
       /\ result = processMolecule(arg, fragments, costas)
  /\ CalculateDone =>
       result = calculate(arg, NULL, method,
                          IF calculateReturnsAtOnce(arg, method) THEN NoFragments
                          ELSE FragmentsAsDeclared)
  /\ LookupDone => result = getReferenceData(arg.moleculeName)

\* methylglyoxal is fragmented after ethanol (a reference entry) and another
\* molecule went through the engine
C30_Witness ==
  /\ ProcessMoleculeDone
  /\ arg = Methylglyoxal
  /\ fragments # NoFragments
  /\ Ethanol.id \in processed
  /\ Cardinality(processed) >= 3
  /\ tables = PristineTables

====
